---- MODULE Spec2Model ----
(***************************************************************************)
(* The HTTP response cache of antarctic-database-go (src/cache/cache.go):  *)
(* the SQLite-backed store (SQLiteCache), the facade over it (Cache.Get,   *)
(* Cache.Set, Cache.Delete), the caching transport (Cache.RoundTrip) and   *)
(* the manual ingestion of documents (ingestManualDocuments, papers.go).   *)
(*                                                                         *)
(* Strings that the code converts (header values, RFC3339 timestamps) are  *)
(* sequences of bytes, so that the conversions are computed and not        *)
(* assumed: json.Marshal decodes UTF-8 and replaces invalid bytes by       *)
(* U+FFFD, json.Unmarshal encodes the runes back, time.Format drops the    *)
(* sub-second part of an instant.                                          *)
(***************************************************************************)
EXTENDS Integers, Sequences, FiniteSets, TLC

\* ------------------------------------------------------------------ bounds

\* Calls the goroutines of Spec issue in one behaviour, all together.
MaxOps == 2
\* Certificates the generation function makes in one behaviour.
MaxCerts == 3
\* Connections with a request in flight at one time.
MaxConns == 2
\* Calls of the cancel function, and signals delivered, in one behaviour.
MaxTriggers == 2
\* Calls the single caller of SpecSeq issues in one behaviour.
MaxCalls == 3
\* The largest maxRetries passed to DownloadWithRetry.
MaxRetries == 3
\* The wall clock runs from 0 to MaxClock ticks.
MaxClock == 2
\* Clock ticks in one second: RFC3339 keeps whole seconds only.
TicksPerSecond == 2
\* Characters in a path given to NewHTTPClient.
MaxPathLen == 2

\* ------------------------------------------------------------ option values

Nil == <<>>
Some(x) == <<x>>
Val(o) == o[1]

\* ------------------------------------------------------- UTF-8 and JSON text

RuneError == 65533

IsCont(b) == b >= 128 /\ b <= 191

\* Length of the valid UTF-8 sequence that starts s, 0 when s starts with an
\* invalid byte (utf8.DecodeRuneInString returns RuneError with width 1).
Utf8Width(s) ==
    LET b == s[1]
        n == Len(s)
    IN  IF b < 128 THEN 1
        ELSE IF b >= 194 /\ b <= 223
            THEN IF n >= 2 /\ IsCont(s[2]) THEN 2 ELSE 0
        ELSE IF b >= 224 /\ b <= 239
            THEN IF /\ n >= 3 /\ IsCont(s[2]) /\ IsCont(s[3])
                    /\ (b = 224 => s[2] >= 160)
                    /\ (b = 237 => s[2] <= 159)
                 THEN 3 ELSE 0
        ELSE IF b >= 240 /\ b <= 244
            THEN IF /\ n >= 4 /\ IsCont(s[2]) /\ IsCont(s[3]) /\ IsCont(s[4])
                    /\ (b = 240 => s[2] >= 144)
                    /\ (b = 244 => s[2] <= 143)
                 THEN 4 ELSE 0
        ELSE 0

DecodeRune(s, w) ==
    IF w = 1 THEN s[1]
    ELSE IF w = 2 THEN (s[1] - 192) * 64 + (s[2] - 128)
    ELSE IF w = 3 THEN (s[1] - 224) * 4096 + (s[2] - 128) * 64 + (s[3] - 128)
    ELSE (s[1] - 240) * 262144 + (s[2] - 128) * 4096 + (s[3] - 128) * 64 + (s[4] - 128)

EncodeRune(r) ==
    IF r < 128 THEN <<r>>
    ELSE IF r < 2048 THEN <<192 + (r \div 64), 128 + (r % 64)>>
    ELSE IF r < 65536
        THEN <<224 + (r \div 4096), 128 + ((r \div 64) % 64), 128 + (r % 64)>>
    ELSE <<240 + (r \div 262144), 128 + ((r \div 4096) % 64),
           128 + ((r \div 64) % 64), 128 + (r % 64)>>

\* The runes json.Marshal writes for a Go string: invalid bytes become U+FFFD.
RECURSIVE StringToJSON(_)
StringToJSON(s) ==
    IF s = <<>> THEN <<>>
    ELSE LET w == Utf8Width(s)
         IN  IF w = 0
             THEN <<RuneError>> \o StringToJSON(SubSeq(s, 2, Len(s)))
             ELSE <<DecodeRune(s, w)>> \o StringToJSON(SubSeq(s, w + 1, Len(s)))

\* The Go string json.Unmarshal builds from the runes of a JSON string.
RECURSIVE StringFromJSON(_)
StringFromJSON(rs) ==
    IF rs = <<>> THEN <<>>
    ELSE EncodeRune(Head(rs)) \o StringFromJSON(Tail(rs))

\* HeadersToJSON: json.Marshal of an http.Header writes the keys in sorted order, so the text
\* is determined by the map of keys to lists of JSON strings: that map stands
\* for the text. Header names are ASCII here (valid UTF-8, written as they are).
HeadersToJSON(headers) ==
    [k \in DOMAIN headers |->
        [i \in DOMAIN headers[k] |-> StringToJSON(headers[k][i])]]

\* A mutation of HeadersFromJSON: only the first value of a key is kept.
HeadersFromJSONFirstValue(jsonStr) ==
    [k \in DOMAIN jsonStr |->
        [i \in DOMAIN jsonStr[k] \cap {1} |-> StringFromJSON(jsonStr[k][i])]]

\* HeadersFromJSON: json.Unmarshal of the text into an http.Header.
HeadersFromJSON(jsonStr) ==
    [k \in DOMAIN jsonStr |->
        [i \in DOMAIN jsonStr[k] |-> StringFromJSON(jsonStr[k][i])]]

\* ------------------------------------------------------------------- time

\* time.Format(time.RFC3339): "T" and the whole seconds, as bytes.
FormatRFC3339(t) == <<84, 48 + (t \div TicksPerSecond)>>

\* time.Parse(time.RFC3339, s): the instant, or Nil for malformed text.
ParseRFC3339(s) ==
    IF Len(s) = 2 /\ s[1] = 84 /\ s[2] >= 48 /\ s[2] <= 57
    THEN Some((s[2] - 48) * TicksPerSecond)
    ELSE Nil

\* ------------------------------------------------------------------ inputs

Workers == {"w1", "w2"}
Caller == "w1"

Methods == {"GET"}
Urls == {"https://x/1", "https://x/2"}

\* RequestKey
Keys == [Method : Methods, URL : Urls]

XCacheTimestamp == "X-Cache-Timestamp"

StatusText(code) == IF code = 200 THEN "200 OK" ELSE "404 Not Found"

\* A body is a reader: the bytes behind it, and how many of them were read.
\* bytes.NewReader
NewReader(b) == [data |-> b, pos |-> 0]

\* io.ReadAll: the bytes not read so far (which leaves the reader at its end).
ReadAll(r) == SubSeq(r.data, r.pos + 1, Len(r.data))

\* A response whose body nobody has read from.
Response(code, header, body) ==
    [Status |-> StatusText(code), StatusCode |-> code, Header |-> header,
     Body |-> NewReader(body)]

\* Content-Type: text/plain ("t/p")
PlainHeader == [k \in {"Content-Type"} |-> <<(<<116, 47, 112>>)>>]
\* X-Test: Value1, Value2 ("V1", "V2"): one key with two values
MultiHeader == [k \in {"X-Test"} |-> << <<86, 49>>, <<86, 50>> >>]
\* X-Bin: a value that is not UTF-8 (the lone byte 0xE9 of Latin-1), then "a"
Latin1Header == [k \in {"X-Bin"} |-> << <<233>>, <<97>> >>]

\* What an origin can answer and what a caller can pass to Cache.Set.
Responses ==
    { Response(200, PlainHeader, <<65>>), Response(200, PlainHeader, <<66>>),
      Response(200, MultiHeader, <<65>>), Response(404, PlainHeader, <<65>>) }

\* A response of whose body "CD" the caller has read the first byte.
PartlyRead == [Response(200, PlainHeader, <<67, 68>>) EXCEPT !.Body.pos = 1]

\* SpecSeq adds a header whose value is not valid UTF-8.
SeqResponses == Responses \cup { Response(200, Latin1Header, <<65>>) }

\* ingestManualDocuments: the response built from a file modified at modTime.
ManualResponse(body, modTime) ==
    Response(200, [k \in {XCacheTimestamp} |-> <<FormatRFC3339(modTime)>>], body)

\* ------------------------------------------------------------------- state

VARIABLES
    table,      \* the rows of the sqlite table "cache"
    lock,       \* lock[w]: the file lock held by the transaction of w's Set
    pc,         \* pc[w]: where goroutine w is in its call
    op,         \* op[w]: the call of w and its local variables
    result,     \* result[w]: what the last call of w returned
    now,        \* the wall clock at its latest reading, in ticks
    started,    \* calls issued so far
    settled,    \* settled[k]: a RoundTrip for k has returned a response and k
                \* has not been deleted since (history, read by no action)
    source,     \* source[k]: the response whose Set inserted the row of k, Nil
                \* when k has no row (history, read by no action)
    before,     \* SpecSeq: the table when the caller's latest call began
                \* (history, read by no action)
    fetched,    \* SpecProxySeq: fetched[k] holds <<path, status code>> of every
                \* finished call of the caller that got an answer of the origin
                \* for k, k not deleted since (history, read by no action)
    certs,      \* CertStorage.certs: hostname -> certificate
    fetch,      \* fetch[f]: the call of CertStorage.Fetch goroutine f is in
    generated,  \* certificates the generation function has made so far
    returned,   \* returned[h]: the certificates Fetch has returned for h
                \* (history, read by no action)
    failed,     \* failed[h]: a Fetch for h has returned the error of gen and
                \* the map has held no certificate for h since (history, read
                \* by no action)
    ctxDone,    \* RunServer: ctx is cancelled
    stop,       \* RunServer: signals waiting in the channel stop
    listenPc,   \* RunServer: the goroutine of server.ListenAndServe
    shutPc,     \* RunServer: the goroutine that waits for ctx.Done()
    sigPc,      \* RunServer: the goroutine that waits for a signal
    inShutdown, \* http.Server: Shutdown has been called
    conns,      \* http.Server: connections with a request in flight
    elapsed,    \* time since shutdownCtx was made, in seconds
    shutdownErr,    \* what server.Shutdown returned
    shutdownCalls,  \* calls of server.Shutdown so far
    cancelCalls,    \* calls of the cancel function RunServer returned
    signals,        \* SIGINT and SIGTERM delivered to the process
    client,     \* NewHTTPClient: its argument and what it returned
    opened,     \* the paths at which NewSQLiteCache has opened a store
    retry       \* DownloadWithRetry: its arguments and local variables, and
                \* what its attempts did (history)

cacheVars ==
    <<table, lock, pc, op, result, now, started, settled, source, before, fetched>>

certVars == <<certs, fetch, generated, returned, failed>>

serverVars ==
    <<ctxDone, stop, listenPc, shutPc, sigPc, inShutdown, conns, elapsed,
      shutdownErr, shutdownCalls, cancelCalls, signals>>

clientVars == <<client, opened, retry>>

vars == <<cacheVars, certVars, serverVars, clientVars>>

NoKey == [Method |-> "", URL |-> ""]

NoOp ==
    [kind |-> "none", key |-> NoKey, resp |-> Nil, row |-> Nil,
     transportCalls |-> 0, afterSettled |-> FALSE, keyAbsent |-> FALSE,
     \* the proxy's hooks: the inbound request, resp.Request, ctx.UserData
     request |-> 0, respRequest |-> Nil, userData |-> Nil,
     \* the error cache.Get returned to the request hook
     getErr |-> "",
     \* calls of SQLiteCache.Set the call made, and the error of the last
     setCalls |-> 0, setErr |-> "",
     \* the call is one of a single caller; fetched[key] when it began
     seq |-> FALSE, afterFetched |-> {},
     \* the rows GetAll returned
     rows |-> <<>>,
     \* the response passed to Set is the one the caller's Get returned
     got |-> FALSE]

NoResult == [resp |-> Nil, err |-> ""]

NewOp(kind, key) == [NoOp EXCEPT !.kind = kind, !.key = key]

\* The hostnames of the CONNECT requests, and the goroutines that serve them.
Hostnames == {"a.example", "b.example"}
Fetchers == {"f1", "f2"}

NoFetch ==
    [pc |-> "idle", hostname |-> "", cert |-> Nil, genCalls |-> 0,
     result |-> [cert |-> Nil, err |-> ""], after |-> {},
     \* failed[hostname] when the call began
     afterFailed |-> FALSE]

\* &CertStorage{}: an empty sync.Map.
CertInit ==
    /\ certs = [h \in Hostnames |-> Nil]
    /\ fetch = [f \in Fetchers |-> NoFetch]
    /\ generated = 0
    /\ returned = [h \in Hostnames |-> {}]
    /\ failed = [h \in Hostnames |-> FALSE]

\* RunServer has returned: the context is live, the channel is empty and
\* registered for the signals, the three goroutines are started.
ServerInit ==
    /\ ctxDone = FALSE
    /\ stop = 0
    /\ listenPc = "start"
    /\ shutPc = "wait"
    /\ sigPc = "wait"
    /\ inShutdown = FALSE
    /\ conns = 0
    /\ elapsed = 0
    /\ shutdownErr = ""
    /\ shutdownCalls = 0
    /\ cancelCalls = 0
    /\ signals = 0

\* NewHTTPClient has not been called.
NoClient == [made |-> FALSE, dbFile |-> Nil, canOpen |-> FALSE,
             client |-> Nil, err |-> ""]

\* The zero values Download returns with an error.
NoDownload == [body |-> <<>>, code |-> 0, t |-> Nil, err |-> ""]

\* DownloadWithRetry has not been called.
NoRetry ==
    [pc |-> "idle", key |-> NoKey, maxRetries |-> 0, baseDelay |-> 0,
     attempt |-> 0, delay |-> 0,
     \* the last values of responseBody, responseCode, responseTimestamp, err
     last |-> NoDownload,
     \* what DownloadWithRetry returned: err is Nil or the wrapped error
     result |-> [body |-> <<>>, code |-> 0, t |-> Nil, err |-> Nil],
     \* calls issued on the cache when the attempt began
     startedAt |-> 0,
     \* history: one record for each call of Download, and the delays slept
     attempts |-> <<>>, slept |-> <<>>]

ClientInit ==
    /\ client = NoClient
    /\ opened = {}
    /\ retry = NoRetry

Init ==
    /\ table = {}
    /\ lock = [w \in Workers |-> "none"]
    /\ pc = [w \in Workers |-> "idle"]
    /\ op = [w \in Workers |-> NoOp]
    /\ result = [w \in Workers |-> NoResult]
    /\ now = 0
    /\ started = 0
    /\ settled = [k \in Keys |-> FALSE]
    /\ source = [k \in Keys |-> Nil]
    /\ before = {}
    /\ fetched = [k \in Keys |-> {}]
    /\ CertInit
    /\ ServerInit
    /\ ClientInit

\* ------------------------------------------------------- the sqlite engine

\* A mutation that removes the file locks (a connection opened with nolock).
LockCompatibleUnlocked(held, want) == TRUE

\* Whether a connection may take the lock `want` while another connection holds
\* `held` (rollback-journal mode, the mode sql.Open gives for a plain path):
\* readers share, one writer reserves, a commit or an autocommit write needs
\* every other connection to hold nothing.
LockCompatible(held, want) ==
    IF want = "shared" THEN TRUE
    ELSE IF want = "reserved" THEN held # "reserved"
    ELSE held = "none"

CanLock(w, want) == \A v \in Workers \ {w} : LockCompatible(lock[v], want)

\* PRIMARY KEY (method, url)
PrimaryKey(r) == <<r.method, r.url>>

\* WHERE method = ? AND url = ?
RowsWhere(tbl, method, url) == {r \in tbl : r.method = method /\ r.url = url}

HasRow(tbl, key) == RowsWhere(tbl, key.Method, key.URL) # {}

\* ------------------------------------------------------------- SQLiteCache

\* SQLiteCache.Get: the CacheRow of the key, Nil when no row matches; the
\* timestamp column is parsed back into an instant.
SQLiteGet(tbl, key) ==
    LET rows == RowsWhere(tbl, key.Method, key.URL)
    IN  IF rows = {} THEN [row |-> Nil, err |-> ""]
        ELSE LET r == CHOOSE x \in rows : TRUE
                 t == ParseRFC3339(r.timestamp)
             IN  IF t = Nil
                 THEN [row |-> Nil, err |-> "failed to parse timestamp"]
                 ELSE [row |-> Some([StatusCode |-> r.status_code, Status |-> r.status,
                                     Headers |-> r.headers, Method |-> r.method,
                                     Url |-> r.url, Body |-> r.body,
                                     Timestamp |-> Val(t)]),
                       err |-> ""]

\* The order of two TEXT values under sqlite's BINARY collation: byte by byte,
\* a prefix before what it is a prefix of.
RECURSIVE TextLess(_, _)
TextLess(a, b) ==
    IF b = <<>> THEN FALSE
    ELSE IF a = <<>> THEN TRUE
    ELSE IF a[1] # b[1] THEN a[1] < b[1]
    ELSE TextLess(Tail(a), Tail(b))

\* SQLiteCache.GetAll: the CacheRows of the table, ORDER BY timestamp DESC;
\* rows of one timestamp come in any order. The set of the slices it can
\* return.
SQLiteGetAll(tbl) ==
    LET n == Cardinality(tbl)
        orders == {s \in [1..n -> tbl] :
                     /\ \A i, j \in 1..n : i # j => s[i] # s[j]
                     /\ \A i, j \in 1..n :
                           i < j => ~TextLess(s[i].timestamp, s[j].timestamp)}
    IN  {[i \in 1..n |->
            [StatusCode |-> s[i].status_code, Status |-> s[i].status,
             Headers |-> s[i].headers, Method |-> s[i].method,
             Url |-> s[i].url, Body |-> s[i].body,
             Timestamp |-> Val(ParseRFC3339(s[i].timestamp))]] : s \in orders}

\* SQLiteCache.Get when the query fails (the file cannot be read).
QueryError == "failed to query cache"

SQLiteGetFailed == [row |-> Nil, err |-> QueryError]

\* A mutation of the comparison in Set: the status code is compared first.
ConflictErrorWithStatus(existing, row) ==
    IF existing.status_code # row.StatusCode
    THEN "cache entry exists with different status"
    ELSE IF existing.headers # row.Headers
    THEN "cache entry exists with different headers"
    ELSE IF existing.body # row.Body
    THEN "cache entry exists with different body"
    ELSE ""

\* A mutation of the comparison in Set: the status text is compared as well.
ConflictErrorWithStatusText(existing, row) ==
    IF existing.headers # row.Headers
    THEN "cache entry exists with different headers"
    ELSE IF existing.body # row.Body
    THEN "cache entry exists with different body"
    ELSE IF existing.status # row.Status
    THEN "cache entry exists with different status"
    ELSE ""

\* A mutation of the comparison in Set: the headers are not compared.
ConflictErrorBodyOnly(existing, row) ==
    IF existing.body # row.Body
    THEN "cache entry exists with different body"
    ELSE ""

\* A mutation of the comparison in Set: an existing row is taken as equal.
ConflictErrorIgnored(existing, row) == ""

\* SQLiteCache.Set, the branch of an existing row: the error for a row whose
\* headers or body differ, "" when both match.
ConflictError(existing, row) ==
    IF existing.headers # row.Headers
    THEN "cache entry exists with different headers"
    ELSE IF existing.body # row.Body
    THEN "cache entry exists with different body"
    ELSE ""

ConflictErrors ==
    {"cache entry exists with different headers",
     "cache entry exists with different body"}

InsertError == "failed to insert cache entry"

\* INSERT INTO cache (...) VALUES (...): the row as the table keeps it.
InsertedRow(row) ==
    [method |-> row.Method, url |-> row.Url, status_code |-> row.StatusCode,
     status |-> row.Status, headers |-> row.Headers, body |-> row.Body,
     timestamp |-> FormatRFC3339(row.Timestamp)]

\* A mutation of Delete: the WHERE clause names the method only.
DeleteRowsOfMethod(tbl, key) == {r \in tbl : r.method # key.Method}

\* A mutation of Delete: the statement has no WHERE clause.
DeleteRowsAll(tbl, key) == {}

\* SQLiteCache.Delete: DELETE FROM cache WHERE method = ? AND url = ?
DeleteRows(tbl, key) == tbl \ RowsWhere(tbl, key.Method, key.URL)

\* ------------------------------------------------------------------- Cache

\* http.Header.Set
HeaderSet(h, name, value) ==
    [k \in DOMAIN h \cup {name} |-> IF k = name THEN <<value>> ELSE h[k]]

\* A mutation of Cache.Get: the timestamp header is not set.
CacheGetNoTimestamp(tbl, key) ==
    LET got == SQLiteGet(tbl, key)
    IN  IF got.err # "" THEN [resp |-> Nil, err |-> got.err]
        ELSE IF got.row = Nil THEN [resp |-> Nil, err |-> ""]
        ELSE LET row == Val(got.row)
             IN  [resp |-> Some([Status |-> row.Status, StatusCode |-> row.StatusCode,
                                 Header |-> HeadersFromJSON(row.Headers),
                                 Body |-> NewReader(row.Body)]),
                  err |-> ""]

\* Cache.Get, from what SQLiteCache.Get returned.
CacheGetFrom(got) ==
    IF got.err # "" THEN [resp |-> Nil, err |-> got.err]
    ELSE IF got.row = Nil THEN [resp |-> Nil, err |-> ""]
    ELSE LET row == Val(got.row)
         IN  [resp |-> Some([Status |-> row.Status, StatusCode |-> row.StatusCode,
                             Header |-> HeaderSet(HeadersFromJSON(row.Headers),
                                                  XCacheTimestamp,
                                                  FormatRFC3339(row.Timestamp)),
                             Body |-> NewReader(row.Body)]),
              err |-> ""]

\* Cache.Get
CacheGet(tbl, key) == CacheGetFrom(SQLiteGet(tbl, key))

\* A mutation of Cache.Set: resp.Body is left where io.ReadAll left it.
BodyReadNotReset(resp) ==
    [resp EXCEPT !.Body = [data |-> resp.Body.data, pos |-> Len(resp.Body.data)]]

\* Cache.Set: resp, once its body has been read to the end and resp.Body has
\* been replaced by a reader of the bytes read.
BodyRead(resp) == [resp EXCEPT !.Body = NewReader(ReadAll(resp.Body))]

\* Cache.Set, up to the call of SQLiteCache.Set: the CacheRow of the response,
\* with the bytes read from its body, stamped with time.Now().
CacheRow(resp, key, t) ==
    [StatusCode |-> resp.StatusCode, Status |-> resp.Status,
     Headers |-> HeadersToJSON(resp.Header), Method |-> key.Method,
     Url |-> key.URL, Body |-> ReadAll(resp.Body), Timestamp |-> t]

\* ----------------------------------------------------------------- actions
\* Every action takes the goroutine w; `budget` bounds the calls issued, and
\* `seq` says that w is the only caller, whose calls record the table they
\* start from.

\* time.Now(): the clock is read, having stood still or advanced since it was
\* last read. now is the latest reading.
TimeNow == now' \in {t \in {now, now + 1} : t <= MaxClock}

CanCall(w, budget) == pc[w] \in {"idle", "done"} /\ started < budget

\* A call begins.
Begin(budget_ok, seq) ==
    /\ budget_ok
    /\ started' = started + 1
    /\ before' = IF seq THEN table ELSE before

\* The path a call takes to the origin.
Path(o) ==
    IF o.kind = "RoundTrip" THEN "transport"
    ELSE IF o.kind = "Proxy" THEN "proxy"
    ELSE "none"

\* fetched, once the call o has returned.
Fetched(o) ==
    IF o.kind = "Delete" THEN [fetched EXCEPT ![o.key] = {}]
    ELSE IF o.seq /\ Path(o) # "none" /\ o.transportCalls > 0 /\ o.resp # Nil
    THEN [fetched EXCEPT ![o.key] = @ \cup {<<Path(o), Val(o.resp).StatusCode>>}]
    ELSE fetched

\* The call of w returns res; o holds its arguments and what it did (the row it
\* built is dropped with the call's frame).
Finish(w, res, o) ==
    /\ pc' = [pc EXCEPT ![w] = "done"]
    /\ result' = [result EXCEPT ![w] = res]
    /\ op' = [op EXCEPT ![w] = [o EXCEPT !.row = Nil]]
    /\ fetched' = Fetched(o)

\* A mutation of the proxy's response hook: the error of the write is returned
\* to the proxy framework in place of the response.
SetReturnsAlways(o, err) ==
    IF err # "" THEN [resp |-> Nil, err |-> err] ELSE [resp |-> o.resp, err |-> ""]

\* A mutation of Cache.Set: the error of the store is dropped and the response
\* is returned.
SetReturnsFailOpen(o, err) == [resp |-> o.resp, err |-> ""]

\* What the call o returns once its SQLiteCache.Set has returned err: Cache.Set
\* and RoundTrip return the error and no response, or the response; the
\* proxy's response hook drops what cache.Set returns and returns its response.
SetReturns(o, err) ==
    IF o.kind = "Proxy" THEN [resp |-> o.resp, err |-> ""]
    ELSE IF err # "" THEN [resp |-> Nil, err |-> err]
    ELSE [resp |-> o.resp, err |-> ""]

\* Cache.Get(url, method): one autocommit SELECT.
GetCall(w, key, budget, seq) ==
    /\ Begin(CanCall(w, budget), seq)
    /\ Finish(w, CacheGet(table, key), NewOp("Get", key))
    /\ UNCHANGED <<table, lock, now, settled, source>>
    /\ UNCHANGED <<certVars, serverVars, clientVars>>

\* Cache.Get(url, method) when the query of the store fails.
GetCallFails(w, key, budget, seq) ==
    /\ Begin(CanCall(w, budget), seq)
    /\ Finish(w, CacheGetFrom(SQLiteGetFailed), NewOp("Get", key))
    /\ UNCHANGED <<table, lock, now, settled, source>>
    /\ UNCHANGED <<certVars, serverVars, clientVars>>

\* SqliteCache.GetAll(): one SELECT of every row.
GetAllCall(w, budget, seq) ==
    /\ Begin(CanCall(w, budget), seq)
    /\ \E rows \in SQLiteGetAll(table) :
          Finish(w, NoResult, [NewOp("GetAll", NoKey) EXCEPT !.rows = rows])
    /\ UNCHANGED <<table, lock, now, settled, source>>
    /\ UNCHANGED <<certVars, serverVars, clientVars>>

\* Cache.Delete(url, method): one autocommit DELETE, which waits (sqlite's busy
\* handler) until no transaction holds a lock on the file.
DeleteCall(w, key, budget, seq) ==
    /\ Begin(CanCall(w, budget), seq)
    /\ CanLock(w, "exclusive")
    /\ table' = DeleteRows(table, key)
    /\ settled' = [settled EXCEPT ![key] = FALSE]
    /\ source' = [k \in Keys |-> IF HasRow(table', k) THEN source[k] ELSE Nil]
    /\ Finish(w, NoResult, NewOp("Delete", key))
    /\ UNCHANGED <<lock, now>>
    /\ UNCHANGED <<certVars, serverVars, clientVars>>

\* Cache.Set(resp, url, method) up to db.Begin(): the body is read, the headers
\* are serialised, the row is stamped with time.Now().
SetCall(w, key, resp, budget, seq) ==
    /\ Begin(CanCall(w, budget), seq)
    /\ TimeNow
    /\ op' = [op EXCEPT ![w] = [NewOp("Set", key) EXCEPT
                                  !.keyAbsent = ~HasRow(table, key),
                                  !.resp = Some(BodyRead(resp)),
                                  !.row = Some(CacheRow(resp, key, now')),
                                  !.setCalls = 1]]
    /\ pc' = [pc EXCEPT ![w] = "set_select"]
    /\ result' = [result EXCEPT ![w] = NoResult]
    /\ UNCHANGED <<table, lock, settled, source, fetched>>
    /\ UNCHANGED <<certVars, serverVars, clientVars>>

\* Cache.Set(resp, url, method) on the response the caller's Cache.Get(url,
\* method) has just returned.
SetGotCall(w, budget, seq) ==
    /\ pc[w] = "done" /\ op[w].kind = "Get" /\ result[w].resp # Nil
    /\ Begin(CanCall(w, budget), seq)
    /\ TimeNow
    /\ LET key == op[w].key
           resp == Val(result[w].resp)
       IN  op' = [op EXCEPT ![w] = [NewOp("Set", key) EXCEPT
                                      !.keyAbsent = ~HasRow(table, key),
                                      !.resp = Some(BodyRead(resp)),
                                      !.row = Some(CacheRow(resp, key, now')),
                                      !.setCalls = 1,
                                      !.got = TRUE]]
    /\ pc' = [pc EXCEPT ![w] = "set_select"]
    /\ result' = [result EXCEPT ![w] = NoResult]
    /\ UNCHANGED <<table, lock, settled, source, fetched>>
    /\ UNCHANGED <<certVars, serverVars, clientVars>>

\* SQLiteCache.Set: SELECT headers, body inside the transaction, which takes
\* the shared lock and keeps it; an existing row is compared at once, and a
\* conflict returns through the deferred Rollback.
TxSelect(w) ==
    /\ pc[w] = "set_select"
    /\ LET row == Val(op[w].row)
           rows == RowsWhere(table, row.Method, row.Url)
       IN  IF rows = {}
           THEN /\ lock' = [lock EXCEPT ![w] = "shared"]
                /\ pc' = [pc EXCEPT ![w] = "set_insert"]
                /\ UNCHANGED <<op, result, fetched>>
           ELSE LET existing == CHOOSE r \in rows : TRUE
                    err == ConflictError(existing, row)
                IN  IF err # ""
                    THEN /\ lock' = [lock EXCEPT ![w] = "none"]
                         /\ Finish(w, SetReturns(op[w], err),
                                   [op[w] EXCEPT !.setErr = err])
                    ELSE /\ lock' = [lock EXCEPT ![w] = "shared"]
                         /\ pc' = [pc EXCEPT ![w] = "set_commit"]
                         /\ UNCHANGED <<op, result, fetched>>
    /\ UNCHANGED <<table, now, started, settled, source, before>>
    /\ UNCHANGED <<certVars, serverVars, clientVars>>

\* SQLiteCache.Set: the INSERT. It needs the reserved lock; a transaction that
\* already reads is refused it at once ("database is locked") while another
\* holds it, and the primary key refuses a second row of the key. Either error
\* returns through the deferred Rollback.
TxInsert(w) ==
    /\ pc[w] = "set_insert"
    /\ LET new == InsertedRow(Val(op[w].row))
       IN  IF /\ CanLock(w, "reserved")
              /\ \A r \in table : PrimaryKey(r) # PrimaryKey(new)
           THEN /\ lock' = [lock EXCEPT ![w] = "reserved"]
                /\ pc' = [pc EXCEPT ![w] = "set_commit"]
                /\ UNCHANGED <<op, result, fetched>>
           ELSE /\ lock' = [lock EXCEPT ![w] = "none"]
                /\ Finish(w, SetReturns(op[w], InsertError),
                          [op[w] EXCEPT !.setErr = InsertError])
    /\ UNCHANGED <<table, now, started, settled, source, before>>
    /\ UNCHANGED <<certVars, serverVars, clientVars>>

\* SQLiteCache.Set: tx.Commit(). A writer waits until no other transaction
\* reads, then its row becomes visible; Cache.Set returns the response.
TxCommit(w) ==
    /\ pc[w] = "set_commit"
    /\ lock[w] = "reserved" => CanLock(w, "exclusive")
    /\ table' = IF lock[w] = "reserved"
                THEN table \cup {InsertedRow(Val(op[w].row))}
                ELSE table
    /\ lock' = [lock EXCEPT ![w] = "none"]
    /\ settled' = IF op[w].kind = "RoundTrip"
                  THEN [settled EXCEPT ![op[w].key] = TRUE]
                  ELSE settled
    /\ source' = IF lock[w] = "reserved"
                 THEN [source EXCEPT ![op[w].key] = op[w].resp]
                 ELSE source
    /\ Finish(w, SetReturns(op[w], ""), op[w])
    /\ UNCHANGED <<now, started, before>>
    /\ UNCHANGED <<certVars, serverVars, clientVars>>

\* A mutation of RoundTrip: the cached response is ignored.
RoundTripHitNever(got) == FALSE

\* Cache.RoundTrip: `if resp != nil` after c.Get.
RoundTripHit(got) == got.resp # Nil

\* Cache.RoundTrip up to the call of the transport: a hit (or an error of Get)
\* returns at once.
RoundTripCall(w, key, budget, seq) ==
    /\ Begin(CanCall(w, budget), seq)
    /\ LET got == CacheGet(table, key)
           o == [NewOp("RoundTrip", key) EXCEPT !.afterSettled = settled[key],
                                                !.seq = seq,
                                                !.afterFetched = fetched[key]]
       IN  IF got.err # ""
           THEN /\ Finish(w, got, o)
                /\ UNCHANGED settled
           ELSE IF RoundTripHit(got)
           THEN /\ Finish(w, got, o)
                /\ settled' = [settled EXCEPT ![key] = TRUE]
           ELSE /\ op' = [op EXCEPT ![w] = o]
                /\ pc' = [pc EXCEPT ![w] = "rt_transport"]
                /\ result' = [result EXCEPT ![w] = NoResult]
                /\ UNCHANGED <<settled, fetched>>
    /\ UNCHANGED <<table, lock, now, source>>
    /\ UNCHANGED <<certVars, serverVars, clientVars>>

NetworkError == "network error"

\* A mutation of RoundTrip: the error of the transport is dropped.
RoundTripTransportFailedQuietly(err) == [resp |-> Nil, err |-> ""]

\* Cache.RoundTrip: `if err != nil { return nil, err }` after the transport.
RoundTripTransportFailed(err) == [resp |-> Nil, err |-> err]

\* Cache.RoundTrip: the transport fails, RoundTrip returns its error.
TransportError(w) ==
    /\ pc[w] = "rt_transport"
    /\ Finish(w, RoundTripTransportFailed(NetworkError),
              [op[w] EXCEPT !.transportCalls = @ + 1])
    /\ UNCHANGED <<table, lock, now, started, settled, source, before>>
    /\ UNCHANGED <<certVars, serverVars, clientVars>>

\* Cache.RoundTrip: the transport answers, and Cache.Set starts on the answer.
TransportResponse(w, resp) ==
    /\ pc[w] = "rt_transport"
    /\ TimeNow
    /\ op' = [op EXCEPT ![w] = [@ EXCEPT
                                  !.transportCalls = @ + 1,
                                  !.resp = Some(BodyRead(resp)),
                                  !.row = Some(CacheRow(resp, op[w].key, now')),
                                  !.setCalls = @ + 1]]
    /\ pc' = [pc EXCEPT ![w] = "set_select"]
    /\ UNCHANGED <<table, lock, result, started, settled, source, before, fetched>>
    /\ UNCHANGED <<certVars, serverVars, clientVars>>

\* ingestManualDocuments, one url: the response carries the file's modification
\* time, the key is deleted, and Cache.Set starts on the response.
IngestCall(w, key, body, modTime, budget, seq) ==
    /\ Begin(CanCall(w, budget), seq)
    /\ CanLock(w, "exclusive")
    /\ table' = DeleteRows(table, key)
    /\ settled' = [settled EXCEPT ![key] = FALSE]
    /\ source' = [k \in Keys |-> IF HasRow(table', k) THEN source[k] ELSE Nil]
    /\ fetched' = [fetched EXCEPT ![key] = {}]
    /\ TimeNow
    /\ LET resp == ManualResponse(body, modTime)
       IN  op' = [op EXCEPT ![w] = [NewOp("Ingest", key) EXCEPT
                                      !.resp = Some(BodyRead(resp)),
                                      !.row = Some(CacheRow(resp, key, now')),
                                      !.setCalls = 1]]
    /\ pc' = [pc EXCEPT ![w] = "set_select"]
    /\ result' = [result EXCEPT ![w] = NoResult]
    /\ UNCHANGED lock
    /\ UNCHANGED <<certVars, serverVars, clientVars>>

\* The bodies of the files ingestManualDocuments reads.
ManualBodies == {<<77>>}

\* ------------------------------------------------- the hooks of the proxy
\* goproxy runs the request hook, forwards the request to the origin when the
\* hook returned no response, and runs the response hook on what it has (the
\* hook's response, the origin's, or nil after a failed round trip).

\* os.Exit(1): every goroutine of the process stops.
OsExit == pc' = [v \in Workers |-> "exit"]

\* A mutation of the request hook: the cached response keeps a nil Request.
LinkRequestOmitted(req) == Nil

\* OnRequest: cachedResp.Request = req
LinkRequest(req) == Some(req)

\* A mutation of the request hook: the key is built without the method.
RequestKeyWithoutMethod(url, method) == [Method |-> "", URL |-> url]

\* OnRequest: RequestKey{URL: Url(url), Method: req.Method}
RequestKey(url, method) == [Method |-> method, URL |-> url]

\* A mutation of shouldCache: every status code is cached.
ShouldCacheAny(resp) == TRUE

\* shouldCache
ShouldCache(resp) == resp.StatusCode = 200

\* bytes.NewBuffer, read from its start.
NewBuffer(b) == [data |-> b, pos |-> 0]

\* A mutation of cloneResponse: the body of resp is not restored.
CloneResponseDrains(resp) ==
    LET bodyBytes == ReadAll(resp.Body)
    IN  [resp |-> [resp EXCEPT !.Body = [data |-> resp.Body.data,
                                         pos |-> Len(resp.Body.data)]],
         clone |-> [Status |-> resp.Status, StatusCode |-> resp.StatusCode,
                    Header |-> resp.Header, Body |-> NewBuffer(bodyBytes)]]

\* cloneResponse: the body of resp is read to its end; resp gets a buffer of
\* the bytes read as its body, and the clone has the status, the header values
\* in their order and another buffer of the bytes.
CloneResponse(resp) ==
    LET bodyBytes == ReadAll(resp.Body)
    IN  [resp |-> [resp EXCEPT !.Body = NewBuffer(bodyBytes)],
         clone |-> [Status |-> resp.Status, StatusCode |-> resp.StatusCode,
                    Header |-> [k \in DOMAIN resp.Header |->
                                   [i \in DOMAIN resp.Header[k] |-> resp.Header[k][i]]],
                    Body |-> NewBuffer(bodyBytes)]]

\* A mutation of OnRequest: the error of cache.Get is not looked at.
GetFailedIgnored(got) == FALSE

\* OnRequest: `if err != nil` after cache.Get.
GetFailed(got) == got.err # ""

\* OnRequest, from what cache.Get returned: a hit returns the cached response
\* linked to the request; a miss puts the key in ctx.UserData and lets the
\* request go to the origin; an error of the cache ends the process.
OnRequest(w, key, got, budget, seq) ==
    /\ Begin(CanCall(w, budget), seq)
    /\ LET o == [NewOp("Proxy", key) EXCEPT !.afterSettled = settled[key],
                                            !.seq = seq,
                                            !.afterFetched = fetched[key],
                                            !.keyAbsent = ~HasRow(table, key),
                                            !.request = started',
                                            !.getErr = got.err]
       IN  IF GetFailed(got)
           THEN OsExit /\ op' = [op EXCEPT ![w] = o]
           ELSE IF got.resp # Nil
           THEN /\ op' = [op EXCEPT ![w] = [o EXCEPT
                                              !.resp = got.resp,
                                              !.respRequest = LinkRequest(o.request)]]
                /\ pc' = [pc EXCEPT ![w] = "px_response"]
           ELSE /\ op' = [op EXCEPT ![w] = [o EXCEPT
                                              !.userData = Some(RequestKey(key.URL, key.Method))]]
                /\ pc' = [pc EXCEPT ![w] = "px_origin"]
    /\ result' = [result EXCEPT ![w] = NoResult]
    /\ UNCHANGED <<table, lock, now, settled, source, fetched>>
    /\ UNCHANGED <<certVars, serverVars, clientVars>>

\* The proxy receives a request, and cache.Get answers from the table.
ProxyOnRequest(w, key, budget, seq) ==
    OnRequest(w, key, CacheGet(table, key), budget, seq)

\* The proxy receives a request, and the query of cache.Get fails.
ProxyOnRequestFails(w, key, budget, seq) ==
    OnRequest(w, key, CacheGetFrom(SQLiteGetFailed), budget, seq)

\* The request hook returned no response: the proxy's transport sends the
\* request to the origin, whose response carries the request.
ProxyOrigin(w, resp) ==
    /\ pc[w] = "px_origin"
    /\ op' = [op EXCEPT ![w] = [@ EXCEPT
                                  !.transportCalls = @ + 1,
                                  !.resp = Some(resp),
                                  !.respRequest = Some(op[w].request)]]
    /\ pc' = [pc EXCEPT ![w] = "px_response"]
    /\ UNCHANGED <<table, lock, result, now, started, settled, source, before, fetched>>
    /\ UNCHANGED <<certVars, serverVars, clientVars>>

\* The round trip to the origin failed: the response hook gets a nil response.
ProxyOriginError(w) ==
    /\ pc[w] = "px_origin"
    /\ op' = [op EXCEPT ![w] = [@ EXCEPT !.transportCalls = @ + 1]]
    /\ pc' = [pc EXCEPT ![w] = "px_response"]
    /\ UNCHANGED <<table, lock, result, now, started, settled, source, before, fetched>>
    /\ UNCHANGED <<certVars, serverVars, clientVars>>

\* OnResponse: a response of a request that carries a key is cloned and written
\* with cache.Set when shouldCache holds; the hook returns resp in every case.
ProxyOnResponse(w) ==
    /\ pc[w] = "px_response"
    /\ IF op[w].resp # Nil /\ op[w].userData # Nil
       THEN IF op[w].respRequest = Nil
            THEN OsExit /\ UNCHANGED <<op, result, now, fetched>>
            ELSE IF ShouldCache(Val(op[w].resp))
            THEN /\ TimeNow
                 /\ LET cloned == CloneResponse(Val(op[w].resp))
                    IN  op' = [op EXCEPT ![w] = [@ EXCEPT
                                  !.resp = Some(cloned.resp),
                                  !.row = Some(CacheRow(cloned.clone,
                                                        Val(op[w].userData), now')),
                                  !.setCalls = @ + 1]]
                 /\ pc' = [pc EXCEPT ![w] = "set_select"]
                 /\ UNCHANGED <<result, fetched>>
            ELSE /\ Finish(w, [resp |-> op[w].resp, err |-> ""], op[w])
                 /\ UNCHANGED now
       ELSE /\ Finish(w, [resp |-> op[w].resp, err |-> ""], op[w])
            /\ UNCHANGED now
    /\ UNCHANGED <<table, lock, started, settled, source, before>>
    /\ UNCHANGED <<certVars, serverVars, clientVars>>

\* ----------------------------------------------------------- specifications

\* Goroutines that share one Cache.
Next ==
    \/ \E w \in Workers, key \in Keys : GetCall(w, key, MaxOps, FALSE)
    \/ \E w \in Workers, key \in Keys : DeleteCall(w, key, MaxOps, FALSE)
    \/ \E w \in Workers, key \in Keys, resp \in Responses :
          SetCall(w, key, resp, MaxOps, FALSE)
    \/ \E w \in Workers, key \in Keys : RoundTripCall(w, key, MaxOps, FALSE)
    \/ \E w \in Workers, key \in Keys, body \in ManualBodies, modTime \in 0..now :
          IngestCall(w, key, body, modTime, MaxOps, FALSE)
    \/ \E w \in Workers : TxSelect(w)
    \/ \E w \in Workers : TxInsert(w)
    \/ \E w \in Workers : TxCommit(w)
    \/ \E w \in Workers : TransportError(w)
    \/ \E w \in Workers, resp \in Responses : TransportResponse(w, resp)

Spec == Init /\ [][Next]_vars

\* One caller: every call runs from the table the call before it left.
NextSeq ==
    \/ \E key \in Keys : GetCall(Caller, key, MaxCalls, TRUE)
    \/ \E key \in Keys : DeleteCall(Caller, key, MaxCalls, TRUE)
    \/ \E key \in Keys, resp \in SeqResponses : SetCall(Caller, key, resp, MaxCalls, TRUE)
    \/ \E key \in Keys : RoundTripCall(Caller, key, MaxCalls, TRUE)
    \/ \E key \in Keys, body \in ManualBodies, modTime \in 0..now :
          IngestCall(Caller, key, body, modTime, MaxCalls, TRUE)
    \/ TxSelect(Caller)
    \/ TxInsert(Caller)
    \/ TxCommit(Caller)
    \/ TransportError(Caller)
    \/ \E resp \in SeqResponses : TransportResponse(Caller, resp)

SpecSeq == Init /\ [][NextSeq]_vars

\* One caller who gets, sets, ingests and deletes, and who may pass to Set the
\* response Get has returned.
NextGetSet ==
    \/ \E key \in Keys : GetCall(Caller, key, MaxCalls, TRUE)
    \/ \E key \in Keys : DeleteCall(Caller, key, MaxCalls, TRUE)
    \/ \E key \in Keys, resp \in SeqResponses : SetCall(Caller, key, resp, MaxCalls, TRUE)
    \/ SetGotCall(Caller, MaxCalls, TRUE)
    \/ \E key \in Keys, body \in ManualBodies, modTime \in 0..now :
          IngestCall(Caller, key, body, modTime, MaxCalls, TRUE)
    \/ TxSelect(Caller)
    \/ TxInsert(Caller)
    \/ TxCommit(Caller)

SpecGetSet == Init /\ [][NextGetSet]_vars

\* One caller of the facade, whose store can fail to answer a query and who
\* may have read from the body of the response it passes to Set.
NextFacade ==
    \/ \E key \in Keys : GetCall(Caller, key, MaxCalls, TRUE)
    \/ \E key \in Keys : GetCallFails(Caller, key, MaxCalls, TRUE)
    \/ \E key \in Keys : DeleteCall(Caller, key, MaxCalls, TRUE)
    \/ \E key \in Keys, resp \in Responses \cup {PartlyRead} :
          SetCall(Caller, key, resp, MaxCalls, TRUE)
    \/ TxSelect(Caller)
    \/ TxInsert(Caller)
    \/ TxCommit(Caller)

SpecFacade == Init /\ [][NextFacade]_vars

\* Every operation on one Cache, one call at a time: the facade, GetAll, the
\* caching transport, ingestion and the proxy.
NextAll ==
    \/ \E key \in Keys : GetCall(Caller, key, MaxCalls, TRUE)
    \/ GetAllCall(Caller, MaxCalls, TRUE)
    \/ \E key \in Keys : DeleteCall(Caller, key, MaxCalls, TRUE)
    \/ \E key \in Keys, resp \in Responses :
          SetCall(Caller, key, resp, MaxCalls, TRUE)
    \/ \E key \in Keys : RoundTripCall(Caller, key, MaxCalls, TRUE)
    \/ \E key \in Keys, body \in ManualBodies, modTime \in 0..now :
          IngestCall(Caller, key, body, modTime, MaxCalls, TRUE)
    \/ \E key \in Keys : ProxyOnRequest(Caller, key, MaxCalls, TRUE)
    \/ \E resp \in Responses : ProxyOrigin(Caller, resp)
    \/ ProxyOriginError(Caller)
    \/ ProxyOnResponse(Caller)
    \/ TxSelect(Caller)
    \/ TxInsert(Caller)
    \/ TxCommit(Caller)
    \/ TransportError(Caller)
    \/ \E resp \in Responses : TransportResponse(Caller, resp)

SpecAll == Init /\ [][NextAll]_vars

\* The proxy and the caching transport on one Cache: the goroutines of the
\* proxy serve requests while clients call RoundTrip.
NextProxy ==
    \/ \E w \in Workers, key \in Keys : ProxyOnRequest(w, key, MaxOps, FALSE)
    \/ \E w \in Workers, key \in Keys : ProxyOnRequestFails(w, key, MaxOps, FALSE)
    \/ \E w \in Workers, resp \in Responses : ProxyOrigin(w, resp)
    \/ \E w \in Workers : ProxyOriginError(w)
    \/ \E w \in Workers : ProxyOnResponse(w)
    \/ \E w \in Workers, key \in Keys : RoundTripCall(w, key, MaxOps, FALSE)
    \/ \E w \in Workers : TransportError(w)
    \/ \E w \in Workers, resp \in Responses : TransportResponse(w, resp)
    \/ \E w \in Workers : TxSelect(w)
    \/ \E w \in Workers : TxInsert(w)
    \/ \E w \in Workers : TxCommit(w)

SpecProxy == Init /\ [][NextProxy]_vars

\* One request at a time, through the proxy or through the transport.
NextProxySeq ==
    \/ \E key \in Keys : ProxyOnRequest(Caller, key, MaxCalls, TRUE)
    \/ \E resp \in Responses : ProxyOrigin(Caller, resp)
    \/ ProxyOriginError(Caller)
    \/ ProxyOnResponse(Caller)
    \/ \E key \in Keys : RoundTripCall(Caller, key, MaxCalls, TRUE)
    \/ TransportError(Caller)
    \/ \E resp \in Responses : TransportResponse(Caller, resp)
    \/ TxSelect(Caller)
    \/ TxInsert(Caller)
    \/ TxCommit(Caller)

SpecProxySeq == Init /\ [][NextProxySeq]_vars

\* ------------------------------------------------------------- CertStorage
\* A certificate is the number of the call of gen that made it: two calls of
\* gen never return the same *tls.Certificate.

\* A mutation of Fetch: the lookup never finds the hostname.
CertLoadMiss(m, hostname) == Nil

\* cs.certs.Load(hostname)
CertLoad(m, hostname) == m[hostname]

\* A mutation of Fetch: cs.certs.Store(hostname, cert) in place of LoadOrStore.
LoadOrStoreOverwrites(m, hostname, cert) ==
    [actual |-> cert, certs |-> [m EXCEPT ![hostname] = Some(cert)]]

\* cs.certs.LoadOrStore(hostname, cert): the value the map holds for the
\* hostname if it holds one, else cert, which it then holds.
LoadOrStore(m, hostname, cert) ==
    IF m[hostname] # Nil
    THEN [actual |-> Val(m[hostname]), certs |-> m]
    ELSE [actual |-> cert, certs |-> [m EXCEPT ![hostname] = Some(cert)]]

GenError == "gen failed"

\* Fetch(hostname, gen) up to the call of gen: a hostname the map holds returns
\* its certificate at once.
FetchCall(f, hostname) ==
    /\ fetch[f].pc \in {"idle", "done"}
    /\ LET value == CertLoad(certs, hostname)
           o == [NoFetch EXCEPT !.hostname = hostname,
                                !.after = returned[hostname],
                                !.afterFailed = failed[hostname]]
       IN  IF value # Nil
           THEN /\ fetch' = [fetch EXCEPT ![f] = [o EXCEPT
                                 !.pc = "done",
                                 !.result = [cert |-> value, err |-> ""]]]
                /\ returned' = [returned EXCEPT ![hostname] = @ \cup {Val(value)}]
           ELSE /\ fetch' = [fetch EXCEPT ![f] = [o EXCEPT !.pc = "gen"]]
                /\ UNCHANGED returned
    /\ UNCHANGED <<certs, generated, failed>>
    /\ UNCHANGED <<cacheVars, serverVars, clientVars>>

\* gen() returns a new certificate.
GenReturns(f) ==
    /\ fetch[f].pc = "gen"
    /\ generated < MaxCerts
    /\ generated' = generated + 1
    /\ fetch' = [fetch EXCEPT ![f] = [@ EXCEPT !.pc = "store",
                                               !.cert = Some(generated'),
                                               !.genCalls = @ + 1]]
    /\ UNCHANGED <<certs, returned, failed>>
    /\ UNCHANGED <<cacheVars, serverVars, clientVars>>

\* The nil *tls.Certificate gen returns with its error.
NilCert == 0

\* A mutation of Fetch: the error of gen is not looked at.
GenFailedIgnored(err) == FALSE

\* Fetch: `if err != nil` after gen().
GenFailed(err) == err # ""

\* gen() fails: Fetch returns its error and stores nothing.
GenFails(f) ==
    /\ fetch[f].pc = "gen"
    /\ IF GenFailed(GenError)
       THEN /\ fetch' = [fetch EXCEPT ![f] = [@ EXCEPT
                             !.pc = "done",
                             !.genCalls = @ + 1,
                             !.result = [cert |-> Nil, err |-> GenError]]]
            /\ failed' = [failed EXCEPT ![fetch[f].hostname] =
                                            certs[fetch[f].hostname] = Nil]
       ELSE /\ fetch' = [fetch EXCEPT ![f] = [@ EXCEPT !.pc = "store",
                                                       !.cert = Some(NilCert),
                                                       !.genCalls = @ + 1]]
            /\ UNCHANGED failed
    /\ UNCHANGED <<certs, generated, returned>>
    /\ UNCHANGED <<cacheVars, serverVars, clientVars>>

\* Fetch: LoadOrStore, and the certificate the map holds is returned.
FetchStore(f) ==
    /\ fetch[f].pc = "store"
    /\ LET s == LoadOrStore(certs, fetch[f].hostname, Val(fetch[f].cert))
       IN  /\ certs' = s.certs
           /\ fetch' = [fetch EXCEPT ![f] = [@ EXCEPT
                             !.pc = "done",
                             !.result = [cert |-> Some(s.actual), err |-> ""]]]
           /\ returned' = [returned EXCEPT ![fetch[f].hostname] = @ \cup {s.actual}]
           /\ failed' = [failed EXCEPT ![fetch[f].hostname] = FALSE]
    /\ UNCHANGED generated
    /\ UNCHANGED <<cacheVars, serverVars, clientVars>>

\* The goroutines of the proxy's CONNECT requests on one CertStorage.
NextCert ==
    \/ \E f \in Fetchers, hostname \in Hostnames : FetchCall(f, hostname)
    \/ \E f \in Fetchers : GenReturns(f)
    \/ \E f \in Fetchers : GenFails(f)
    \/ \E f \in Fetchers : FetchStore(f)

SpecCert == Init /\ [][NextCert]_vars

\* --------------------------------------------------------------- RunServer
\* The three goroutines RunServer starts, the callers of the cancel function
\* it returns, the signals of the operating system, and the clients of the
\* server. http.Server is taken as net/http documents it: Shutdown closes the
\* listeners, then waits until no connection has a request in flight or until
\* its context ends, whichever is first, and closes no connection that is
\* serving a request.

\* make(chan os.Signal, 1)
StopCapacity == 1

\* context.WithTimeout(context.Background(), 10*time.Second), in seconds
ShutdownTimeout == 10

DeadlineExceeded == "context deadline exceeded"

\* signal.Notify sends without blocking: a signal that finds the channel full
\* is dropped.
ChanSend(n) == IF n < StopCapacity THEN n + 1 ELSE n

\* A mutation of RunServer: server.Shutdown gets a context without a deadline.
ShutdownCtxNeverDone(e) == FALSE

\* shutdownCtx.Done(): the context made by context.WithTimeout ends when its
\* ShutdownTimeout seconds have passed.
ShutdownCtxDone(e) == e >= ShutdownTimeout

\* A mutation of RunServer: the goroutine waits for ctx.Done() in a loop.
ShutdownGoroutineLoops == "wait"

\* The goroutine that called server.Shutdown logs and ends.
ShutdownGoroutineEnd == "done"

\* server.ListenAndServe() starts: it listens and serves, or returns
\* ErrServerClosed at once when Shutdown came first.
ListenStarts ==
    /\ listenPc = "start"
    /\ listenPc' = IF inShutdown THEN "returned" ELSE "serving"
    /\ UNCHANGED <<ctxDone, stop, shutPc, sigPc, inShutdown, conns, elapsed,
                   shutdownErr, shutdownCalls, cancelCalls, signals>>
    /\ UNCHANGED <<cacheVars, certVars, clientVars>>

\* server.ListenAndServe() cannot listen (the address is in use): the error is
\* logged and the goroutine ends.
ListenFails ==
    /\ listenPc = "start"
    /\ listenPc' = "returned"
    /\ UNCHANGED <<ctxDone, stop, shutPc, sigPc, inShutdown, conns, elapsed,
                   shutdownErr, shutdownCalls, cancelCalls, signals>>
    /\ UNCHANGED <<cacheVars, certVars, clientVars>>

\* The listeners are closed: ListenAndServe returns ErrServerClosed, wg.Done().
ServeReturns ==
    /\ listenPc = "serving"
    /\ inShutdown
    /\ listenPc' = "returned"
    /\ UNCHANGED <<ctxDone, stop, shutPc, sigPc, inShutdown, conns, elapsed,
                   shutdownErr, shutdownCalls, cancelCalls, signals>>
    /\ UNCHANGED <<cacheVars, certVars, clientVars>>

\* The server accepts a connection and starts on its request.
Accept ==
    /\ listenPc = "serving"
    /\ ~inShutdown
    /\ conns < MaxConns
    /\ conns' = conns + 1
    /\ UNCHANGED <<ctxDone, stop, listenPc, shutPc, sigPc, inShutdown, elapsed,
                   shutdownErr, shutdownCalls, cancelCalls, signals>>
    /\ UNCHANGED <<cacheVars, certVars, clientVars>>

\* The handler answers a request; its connection becomes idle and is closed.
RequestDone ==
    /\ conns > 0
    /\ conns' = conns - 1
    /\ UNCHANGED <<ctxDone, stop, listenPc, shutPc, sigPc, inShutdown, elapsed,
                   shutdownErr, shutdownCalls, cancelCalls, signals>>
    /\ UNCHANGED <<cacheVars, certVars, clientVars>>

\* The cancel function RunServer returned is called.
CancelCall ==
    /\ cancelCalls < MaxTriggers
    /\ cancelCalls' = cancelCalls + 1
    /\ ctxDone' = TRUE
    /\ UNCHANGED <<stop, listenPc, shutPc, sigPc, inShutdown, conns, elapsed,
                   shutdownErr, shutdownCalls, signals>>
    /\ UNCHANGED <<cacheVars, certVars, clientVars>>

\* The process gets SIGINT or SIGTERM: signal.Notify(stop, ...) passes it on.
Signal ==
    /\ signals < MaxTriggers
    /\ signals' = signals + 1
    /\ stop' = ChanSend(stop)
    /\ UNCHANGED <<ctxDone, listenPc, shutPc, sigPc, inShutdown, conns, elapsed,
                   shutdownErr, shutdownCalls, cancelCalls>>
    /\ UNCHANGED <<cacheVars, certVars, clientVars>>

\* <-stop, cancel(); the goroutine goes on to wg.Wait().
SignalReceived ==
    /\ sigPc = "wait"
    /\ stop > 0
    /\ stop' = stop - 1
    /\ ctxDone' = TRUE
    /\ sigPc' = "wgwait"
    /\ UNCHANGED <<listenPc, shutPc, inShutdown, conns, elapsed,
                   shutdownErr, shutdownCalls, cancelCalls, signals>>
    /\ UNCHANGED <<cacheVars, certVars, clientVars>>

\* wg.Wait() returns once ListenAndServe has returned.
SignalGoroutineEnds ==
    /\ sigPc = "wgwait"
    /\ listenPc = "returned"
    /\ sigPc' = "done"
    /\ UNCHANGED <<ctxDone, stop, listenPc, shutPc, inShutdown, conns, elapsed,
                   shutdownErr, shutdownCalls, cancelCalls, signals>>
    /\ UNCHANGED <<cacheVars, certVars, clientVars>>

\* <-ctx.Done(); shutdownCtx is made and server.Shutdown(shutdownCtx) is called:
\* the listeners are closed.
ShutdownBegins ==
    /\ shutPc = "wait"
    /\ ctxDone
    /\ shutPc' = "shutdown"
    /\ shutdownCalls' = shutdownCalls + 1
    /\ inShutdown' = TRUE
    /\ elapsed' = 0
    /\ UNCHANGED <<ctxDone, stop, listenPc, sigPc, conns, shutdownErr,
                   cancelCalls, signals>>
    /\ UNCHANGED <<cacheVars, certVars, clientVars>>

\* A second of the grace period passes.
Tick ==
    /\ shutPc = "shutdown"
    /\ elapsed < ShutdownTimeout
    /\ elapsed' = elapsed + 1
    /\ UNCHANGED <<ctxDone, stop, listenPc, shutPc, sigPc, inShutdown, conns,
                   shutdownErr, shutdownCalls, cancelCalls, signals>>
    /\ UNCHANGED <<cacheVars, certVars, clientVars>>

\* server.Shutdown finds no request in flight and returns nil.
ShutdownReturns ==
    /\ shutPc = "shutdown"
    /\ conns = 0
    /\ shutdownErr' = ""
    /\ shutPc' = ShutdownGoroutineEnd
    /\ UNCHANGED <<ctxDone, stop, listenPc, sigPc, inShutdown, conns, elapsed,
                   shutdownCalls, cancelCalls, signals>>
    /\ UNCHANGED <<cacheVars, certVars, clientVars>>

\* shutdownCtx ends: server.Shutdown returns its error, which is logged, and
\* the goroutine ends. The requests in flight are left to their handlers.
ShutdownTimesOut ==
    /\ shutPc = "shutdown"
    /\ ShutdownCtxDone(elapsed)
    /\ shutdownErr' = DeadlineExceeded
    /\ shutPc' = ShutdownGoroutineEnd
    /\ UNCHANGED <<ctxDone, stop, listenPc, sigPc, inShutdown, conns, elapsed,
                   shutdownCalls, cancelCalls, signals>>
    /\ UNCHANGED <<cacheVars, certVars, clientVars>>

NextServer ==
    \/ ListenStarts
    \/ ListenFails
    \/ ServeReturns
    \/ Accept
    \/ RequestDone
    \/ CancelCall
    \/ Signal
    \/ SignalReceived
    \/ SignalGoroutineEnds
    \/ ShutdownBegins
    \/ Tick
    \/ ShutdownReturns
    \/ ShutdownTimesOut

SpecServer == Init /\ [][NextServer]_vars

\* The Go scheduler runs a goroutine that can run: the two goroutines that
\* wait for the signal and for the context take their step once it is enabled.
SpecServerFair ==
    /\ Init /\ [][NextServer]_vars
    /\ WF_vars(SignalReceived)
    /\ WF_vars(ShutdownBegins)

\* Time passes, and a goroutine that can run is run: besides the two waiting
\* goroutines, the clock of the grace period advances and server.Shutdown
\* returns once its context has ended.
SpecServerTimed ==
    /\ Init /\ [][NextServer]_vars
    /\ WF_vars(SignalReceived)
    /\ WF_vars(ShutdownBegins)
    /\ WF_vars(Tick)
    /\ WF_vars(ShutdownTimesOut)

\* ----------------------------------------------------------- NewHTTPClient

\* The characters of the paths NewHTTPClient is given.
PathChars == {"/", "a"}

Paths == UNION {[1..n -> PathChars] : n \in 0..MaxPathLen}

\* A mutation of NewHTTPClient: the path is not checked.
IsAbsAlways(path) == TRUE

\* filepath.IsAbs (Unix): the path begins with a slash.
IsAbs(path) == Len(path) > 0 /\ path[1] = "/"

NeedAbsolute == "need absolute path for file"

CreateTableError == "failed to create cache table"

\* NewCache(dbPath): a Cache on the store NewSQLiteCache opens at the path,
\* with no Transport of its own; the error of NewSQLiteCache when the file
\* cannot be opened or the table cannot be created.
NewCache(dbPath, canOpen) ==
    IF canOpen
    THEN [cache |-> Some([SqliteCache |-> dbPath, Transport |-> Nil]), err |-> ""]
    ELSE [cache |-> Nil, err |-> CreateTableError]

\* NewHTTPClient(dbFile): the client and the error it returns, and the path at
\* which it opened a store.
NewHTTPClient(dbFile, canOpen) ==
    IF dbFile = Nil
    THEN [client |-> Some([Transport |-> Nil]), err |-> "", store |-> Nil]
    ELSE IF ~IsAbs(Val(dbFile))
    THEN [client |-> Some([Transport |-> Nil]), err |-> NeedAbsolute, store |-> Nil]
    ELSE LET c == NewCache(Val(dbFile), canOpen)
         IN  IF c.err # ""
             THEN [client |-> Nil, err |-> c.err, store |-> Nil]
             ELSE [client |-> Some([Transport |-> c.cache]), err |-> "",
                   store |-> dbFile]

\* The program calls NewHTTPClient, once.
NewHTTPClientCall(dbFile, canOpen) ==
    /\ ~client.made
    /\ LET r == NewHTTPClient(dbFile, canOpen)
       IN  /\ client' = [made |-> TRUE, dbFile |-> dbFile, canOpen |-> canOpen,
                         client |-> r.client, err |-> r.err]
           /\ opened' = IF r.store = Nil THEN opened ELSE opened \cup {Val(r.store)}
    /\ UNCHANGED retry
    /\ UNCHANGED <<cacheVars, certVars, serverVars>>

\* client.Do of a client whose Transport is the Cache: Cache.RoundTrip.
ClientDoCached(key) ==
    /\ client.client # Nil /\ Val(client.client).Transport # Nil
    /\ RoundTripCall(Caller, key, MaxCalls, TRUE)

\* client.Do of a client without Transport: http.DefaultTransport sends the
\* request to the origin and the client returns its answer.
ClientDoPlain(key, resp) ==
    /\ client.client # Nil /\ Val(client.client).Transport = Nil
    /\ Begin(CanCall(Caller, MaxCalls), TRUE)
    /\ Finish(Caller, [resp |-> Some(resp), err |-> ""],
              [NewOp("Plain", key) EXCEPT !.transportCalls = 1,
                                          !.resp = Some(resp)])
    /\ UNCHANGED <<table, lock, now, settled, source>>
    /\ UNCHANGED <<certVars, serverVars, clientVars>>

\* A program that makes its client with NewHTTPClient and sends its requests
\* through it.
NextClient ==
    \/ \E dbFile \in {Nil} \cup {Some(path) : path \in Paths}, canOpen \in BOOLEAN :
          NewHTTPClientCall(dbFile, canOpen)
    \/ \E key \in Keys : ClientDoCached(key)
    \/ \E key \in Keys, resp \in Responses : ClientDoPlain(key, resp)
    \/ TransportError(Caller)
    \/ \E resp \in Responses : TransportResponse(Caller, resp)
    \/ TxSelect(Caller)
    \/ TxInsert(Caller)
    \/ TxCommit(Caller)

SpecClient == Init /\ [][NextClient]_vars

\* ------------------------------------------------------- DownloadWithRetry
\* utils.go: Download sends one GET through the client and accepts status 200
\* only; DownloadWithRetry calls it up to maxRetries times and sleeps between
\* the calls. The client is the one NewHTTPClient makes, whose transport is
\* the Cache: an attempt is one Cache.RoundTrip of the caller.

\* The base delays passed to DownloadWithRetry, in seconds.
BaseDelays == {1, 2}

UnexpectedStatusError == "unexpected status code"

\* A mutation of Download: every status code is accepted.
UnexpectedStatusNever(code) == FALSE

\* Download: `if resp.StatusCode != http.StatusOK`.
UnexpectedStatus(code) == code # 200

\* http.Header.Get for a key in canonical form: its first value, or "".
HeaderGet(h, name) ==
    IF name \in DOMAIN h /\ h[name] # <<>> THEN h[name][1] ELSE <<>>

\* Download, from what client.Do returned at time t: the body, the status
\* code and the X-Cache-Timestamp of the response (time.Now() when it has
\* none), or an error and nothing.
Download(res, t) ==
    IF res.err # "" THEN [NoDownload EXCEPT !.err = res.err]
    ELSE LET resp == Val(res.resp)
             cacheTimestamp == HeaderGet(resp.Header, XCacheTimestamp)
         IN  IF UnexpectedStatus(resp.StatusCode)
             THEN [NoDownload EXCEPT !.err = UnexpectedStatusError]
             ELSE IF cacheTimestamp = <<>>
             THEN [body |-> ReadAll(resp.Body), code |-> resp.StatusCode,
                   t |-> Some(t), err |-> ""]
             ELSE IF ParseRFC3339(cacheTimestamp) = Nil
             THEN [NoDownload EXCEPT !.err = "failed to parse timestamp"]
             ELSE [body |-> ReadAll(resp.Body), code |-> resp.StatusCode,
                   t |-> ParseRFC3339(cacheTimestamp), err |-> ""]

\* fmt.Errorf("download failed after %d attempts: %w", maxRetries, err)
FailedAfter(maxRetries, err) == Some([attempts |-> maxRetries, err |-> err])

\* What DownloadWithRetry returns after the loop: the values of the last
\* Download and the wrapped error.
RetryFailed(r) ==
    [r EXCEPT !.pc = "done",
              !.result = [body |-> r.last.body, code |-> r.last.code,
                          t |-> r.last.t,
                          err |-> FailedAfter(r.maxRetries, r.last.err)]]

\* The loop condition `attempt <= maxRetries`, evaluated on r: the next
\* attempt begins, or the loop ends.
RetryLoop(r) ==
    IF r.attempt <= r.maxRetries
    THEN [r EXCEPT !.pc = "do", !.startedAt = started]
    ELSE RetryFailed(r)

\* A mutation of DownloadWithRetry: the loop does not break after the last
\* attempt.
LastAttemptNever(attempt, maxRetries) == FALSE

\* DownloadWithRetry: `if attempt >= maxRetries { break }`.
LastAttempt(attempt, maxRetries) == attempt >= maxRetries

\* DownloadWithRetry(url, timeout, client, maxRetries, baseDelay) is called.
DownloadWithRetryCall(key, maxRetries, baseDelay) ==
    /\ retry.pc = "idle"
    /\ pc[Caller] = "idle"
    /\ retry' = RetryLoop([NoRetry EXCEPT !.key = key,
                                          !.maxRetries = maxRetries,
                                          !.baseDelay = baseDelay,
                                          !.delay = baseDelay,
                                          !.attempt = 1])
    /\ UNCHANGED <<client, opened>>
    /\ UNCHANGED <<cacheVars, certVars, serverVars>>

\* Download: client.Do(req) enters Cache.RoundTrip.
DownloadDo ==
    /\ retry.pc = "do"
    /\ started = retry.startedAt
    /\ RoundTripCall(Caller, retry.key, started + 1, TRUE)

\* client.Do has returned: Download returns, and DownloadWithRetry returns
\* its values, or breaks out of the loop, or goes to sleep.
DownloadReturns ==
    /\ retry.pc = "do"
    /\ started > retry.startedAt
    /\ pc[Caller] = "done"
    /\ LET d == Download(result[Caller], now)
           r == [retry EXCEPT
                   !.last = d,
                   !.attempts = Append(@,
                       [err |-> d.err,
                        transportCalls |-> op[Caller].transportCalls,
                        code |-> IF result[Caller].resp = Nil THEN 0
                                 ELSE Val(result[Caller].resp).StatusCode])]
       IN  retry' = IF d.err = ""
                    THEN [r EXCEPT !.pc = "done",
                                   !.result = [body |-> d.body, code |-> d.code,
                                               t |-> d.t, err |-> Nil]]
                    ELSE IF LastAttempt(r.attempt, r.maxRetries)
                    THEN RetryFailed(r)
                    ELSE [r EXCEPT !.pc = "sleep"]
    /\ UNCHANGED <<client, opened>>
    /\ UNCHANGED <<cacheVars, certVars, serverVars>>

\* time.Sleep(delay) returns; delay *= 2; attempt++.
SleepReturns ==
    /\ retry.pc = "sleep"
    /\ retry' = RetryLoop([retry EXCEPT !.slept = Append(@, retry.delay),
                                        !.delay = @ * 2,
                                        !.attempt = @ + 1])
    /\ UNCHANGED <<client, opened>>
    /\ UNCHANGED <<cacheVars, certVars, serverVars>>

\* Another goroutine deletes a key while DownloadWithRetry runs.
OtherDeletes(key) ==
    /\ retry.pc # "idle"
    /\ retry.pc = "do" => started > retry.startedAt
    /\ pc["w2"] = "idle"
    /\ DeleteCall("w2", key, started + 1, FALSE)

\* A program that downloads one url through the caching client.
NextRetry ==
    \/ \E key \in Keys, maxRetries \in 0..MaxRetries, baseDelay \in BaseDelays :
          DownloadWithRetryCall(key, maxRetries, baseDelay)
    \/ DownloadDo
    \/ DownloadReturns
    \/ SleepReturns
    \/ \E key \in Keys : OtherDeletes(key)
    \/ TransportError(Caller)
    \/ \E resp \in Responses : TransportResponse(Caller, resp)
    \/ TxSelect(Caller)
    \/ TxInsert(Caller)
    \/ TxCommit(Caller)

SpecRetry == Init /\ [][NextRetry]_vars

\* ------------------------------------------------------------------ claims

Done(w, kind) == pc[w] = "done" /\ op[w].kind = kind

RowOf(tbl, key) == CHOOSE r \in RowsWhere(tbl, key.Method, key.URL) : TRUE

\* C1: whatever Set, Delete, Get, RoundTrip and ingestion calls the goroutines
\* interleave, the table holds at most one row for each (method, url).
C1_OneRowPerKey ==
    \A r1, r2 \in table : (r1.method = r2.method /\ r1.url = r2.url) => r1 = r2

\* Two goroutines have written different responses to one key, and the key has
\* a row.
C1_Witness ==
    \E k \in Keys :
        /\ HasRow(table, k)
        /\ \A w \in Workers : pc[w] = "done" /\ op[w].key = k /\ op[w].resp # Nil
        /\ op["w1"].resp # op["w2"].resp

\* The response of the call of w has the headers and the body of the response
\* whose Set stored the row of its key.
SameAsStored(w) ==
    /\ source[op[w].key] # Nil
    /\ Val(source[op[w].key]).Header = Val(op[w].resp).Header
    /\ Val(source[op[w].key]).Body = Val(op[w].resp).Body

\* C2: a Set that repeats the headers and the body of the Set that stored the
\* row of the key succeeds, writes nothing, and leaves exactly one row of the
\* key.
C2_IdempotentRestore ==
    \A w \in Workers :
        (Done(w, "Set") /\ HasRow(before, op[w].key) /\ SameAsStored(w)) =>
            /\ result[w] = [resp |-> op[w].resp, err |-> ""]
            /\ table = before
            /\ Cardinality(RowsWhere(table, op[w].key.Method, op[w].key.URL)) = 1

C2_Witness ==
    \E w \in Workers :
        /\ Done(w, "Set") /\ HasRow(before, op[w].key) /\ SameAsStored(w)
        /\ result[w].err = ""

\* The row the call of w would write differs in headers or in body from the
\* row its key had when the call began.
DiffersFromRow(w) ==
    /\ HasRow(before, op[w].key)
    /\ LET r == RowOf(before, op[w].key)
       IN  \/ r.headers # HeadersToJSON(Val(op[w].resp).Header)
           \/ r.body # ReadAll(Val(op[w].resp).Body)

\* C3: a Set for a key whose row differs in headers or in body returns a
\* conflict error and no response, and leaves the table as it was.
C3_ConflictDetection ==
    \A w \in Workers :
        (Done(w, "Set") /\ DiffersFromRow(w)) =>
            /\ result[w].err \in ConflictErrors
            /\ result[w].resp = Nil
            /\ table = before

C3_Witness ==
    \E w \in Workers :
        /\ Done(w, "Set") /\ DiffersFromRow(w)
        /\ result[w].err = "cache entry exists with different headers"

\* Every goroutine is in a Set, all for one key that had no row when each
\* began.
ConcurrentWriters ==
    /\ \A w \in Workers : op[w].kind = "Set" /\ op[w].keyAbsent
    /\ \A v, w \in Workers : op[v].key = op[w].key

\* C4: concurrent Sets of one absent key with the same headers and body all
\* return success, and one row results.
C4_IdenticalWritersSucceed ==
    (/\ ConcurrentWriters
     /\ \A v, w \in Workers : op[v].resp = op[w].resp
     /\ \A w \in Workers : pc[w] = "done") =>
        /\ \A w \in Workers : result[w].err = ""
        /\ Cardinality(table) = 1

\* C5: of concurrent Sets of one absent key with pairwise different bodies,
\* exactly one returns success, the others return the conflict error, and the
\* row is the one of the successful call.
C5_DifferingWritersConflict ==
    (/\ ConcurrentWriters
     /\ \A v, w \in Workers : v # w => Val(op[v].resp).Body # Val(op[w].resp).Body
     /\ \A w \in Workers : pc[w] = "done") =>
        /\ Cardinality({w \in Workers : result[w].err = ""}) = 1
        /\ \A w \in Workers : result[w].err # "" => result[w].err \in ConflictErrors
        /\ \A w \in Workers :
              result[w].err = "" =>
                  \E r \in table : r.body = ReadAll(Val(op[w].resp).Body)

\* C6: a RoundTrip that begins after a RoundTrip for its key has returned a
\* response, the key not deleted since, returns at once with a response and
\* never calls the transport.
C6_CacheHitShortCircuit ==
    \A w \in Workers :
        (op[w].kind = "RoundTrip" /\ op[w].afterSettled) =>
            /\ pc[w] = "done"
            /\ op[w].transportCalls = 0
            /\ result[w].err = ""
            /\ result[w].resp # Nil

C6_Witness ==
    \E w \in Workers : Done(w, "RoundTrip") /\ op[w].afterSettled

\* C7: Get of a key with a row returns the status code, status text and body of
\* the response that was Set, with X-Cache-Timestamp present; Get of a key with
\* no row returns absent; Delete succeeds and removes the rows of its key and
\* nothing else, so a Delete of a key with no row changes nothing.
C7_SetGetDelete ==
    \A w \in Workers :
        /\ Done(w, "Get") =>
              IF HasRow(before, op[w].key)
              THEN /\ result[w].err = ""
                   /\ result[w].resp # Nil
                   /\ source[op[w].key] # Nil
                   /\ Val(result[w].resp).StatusCode = Val(source[op[w].key]).StatusCode
                   /\ Val(result[w].resp).Status = Val(source[op[w].key]).Status
                   /\ Val(result[w].resp).Body = Val(source[op[w].key]).Body
                   /\ XCacheTimestamp \in DOMAIN Val(result[w].resp).Header
              ELSE result[w] = NoResult
        /\ Done(w, "Delete") =>
              /\ result[w] = NoResult
              /\ ~HasRow(table, op[w].key)
              /\ table = {r \in before : r.method # op[w].key.Method \/ r.url # op[w].key.URL}

\* A Delete has removed the row of its key and left the row of the other key.
C7_Witness ==
    \E w \in Workers :
        Done(w, "Delete") /\ HasRow(before, op[w].key) /\ table # {}

\* C8: Get of a key whose row was stored from a response that carried an
\* X-Cache-Timestamp header returns that header's value.
C8_ManualProvenance ==
    \A w \in Workers :
        (/\ Done(w, "Get") /\ result[w].resp # Nil
         /\ source[op[w].key] # Nil
         /\ XCacheTimestamp \in DOMAIN Val(source[op[w].key]).Header) =>
            Val(result[w].resp).Header[XCacheTimestamp]
                = Val(source[op[w].key]).Header[XCacheTimestamp]

\* C9 as stated: every response Get, Set or RoundTrip returns carries
\* X-Cache-Timestamp.
C9_EveryResponseStamped ==
    \A w \in Workers :
        (pc[w] = "done" /\ op[w].kind \in {"Get", "Set", "RoundTrip"}
         /\ result[w].resp # Nil) =>
            XCacheTimestamp \in DOMAIN Val(result[w].resp).Header

\* The call of w was answered from the table: a Get, or a RoundTrip that hit.
FromCache(w) ==
    \/ op[w].kind = "Get"
    \/ op[w].kind = "RoundTrip" /\ op[w].transportCalls = 0

\* C9 amended: a response answered from the table carries X-Cache-Timestamp,
\* with the row's timestamp as its one value; the response Set returns, and so
\* the response RoundTrip returns on a miss, is the response passed in, with
\* the headers it came with.
C9_StampedOnHit ==
    \A w \in Workers :
        (pc[w] = "done" /\ result[w].resp # Nil) =>
            IF FromCache(w)
            THEN /\ XCacheTimestamp \in DOMAIN Val(result[w].resp).Header
                 /\ Val(result[w].resp).Header[XCacheTimestamp]
                        = <<RowOf(table, op[w].key).timestamp>>
            ELSE result[w].resp = op[w].resp

\* A RoundTrip missed and returned the origin's response.
C9_Witness ==
    \E w \in Workers :
        /\ Done(w, "RoundTrip") /\ op[w].transportCalls = 1
        /\ result[w].resp # Nil
        /\ XCacheTimestamp \notin DOMAIN Val(result[w].resp).Header

RECURSIVE ValidUTF8(_)
ValidUTF8(s) ==
    \/ s = <<>>
    \/ /\ Utf8Width(s) > 0
       /\ ValidUTF8(SubSeq(s, Utf8Width(s) + 1, Len(s)))

ValidUTF8Header(h) == \A k \in DOMAIN h : \A i \in DOMAIN h[k] : ValidUTF8(h[k][i])

OtherPathFetched(o) == \E e \in o.afterFetched : e[1] # Path(o)

\* The call of w is answered from the cache: it never waits for the origin, it
\* has made no request to the origin, and what it returns is a response.
ServedFromCache(w) ==
    /\ pc[w] \notin {"rt_transport", "px_origin"}
    /\ op[w].transportCalls = 0
    /\ pc[w] = "done" => (result[w].err = "" /\ result[w].resp # Nil)

OtherPathStored(o) ==
    \E e \in o.afterFetched :
        e[1] # Path(o) /\ (e[1] = "transport" \/ e[2] = 200)

InSet(w) == pc[w] \in {"set_select", "set_insert", "set_commit"}

\* C12: the proxy calls cache.Set for a response only if its status code is
\* 200 and the request hook attached a key, and the row it writes has that
\* key; for any other status code, or with no key attached, it makes no call
\* of cache.Set.
C12_ProxyStoresOnly200 ==
    \A w \in Workers :
        op[w].kind = "Proxy" =>
            /\ (op[w].setCalls > 0 \/ InSet(w)) =>
                  /\ op[w].resp # Nil
                  /\ Val(op[w].resp).StatusCode = 200
                  /\ op[w].userData # Nil
            /\ op[w].row # Nil =>
                  /\ Val(op[w].row).Method = Val(op[w].userData).Method
                  /\ Val(op[w].row).Url = Val(op[w].userData).URL
            /\ (pc[w] = "done" /\ op[w].resp # Nil /\ op[w].userData # Nil
                  /\ Val(op[w].resp).StatusCode = 200) => op[w].setCalls = 1

\* The proxy has stored a response of status 200 under the key of its request.
C12_Witness ==
    \E w \in Workers :
        /\ Done(w, "Proxy") /\ op[w].setCalls = 1 /\ op[w].setErr = ""
        /\ source[op[w].key] = op[w].resp
        /\ \E r \in table : r.url = op[w].key.URL /\ r.method = op[w].key.Method

\* C13: a request the proxy receives for a key that has a row is answered with
\* the stored response, whose Request is the request received; the request is
\* not sent to the origin, no key is attached to the context, and the response
\* hook makes no call of cache.Set.
C13_ProxyHit ==
    \A w \in Workers :
        (op[w].kind = "Proxy" /\ ~op[w].keyAbsent /\ pc[w] # "exit") =>
            /\ pc[w] \in {"px_response", "done"}
            /\ op[w].resp # Nil
            /\ source[op[w].key] # Nil
            /\ Val(op[w].resp).StatusCode = Val(source[op[w].key]).StatusCode
            /\ Val(op[w].resp).Body = Val(source[op[w].key]).Body
            /\ op[w].respRequest = Some(op[w].request)
            /\ op[w].transportCalls = 0
            /\ op[w].userData = Nil
            /\ op[w].setCalls = 0
            /\ pc[w] = "done" => result[w] = [resp |-> op[w].resp, err |-> ""]

C13_Witness ==
    \E w \in Workers : Done(w, "Proxy") /\ ~op[w].keyAbsent

\* C14: the error of a store write is returned to whoever made the write: a
\* call whose SQLiteCache.Set returned an error returns that error and no
\* response.
C14_WriteErrorsSurfaced ==
    \A w \in Workers :
        (pc[w] = "done" /\ op[w].setErr # "") =>
            /\ result[w].err = op[w].setErr
            /\ result[w].resp = Nil


\* ------------------------------------------- claims: RoundTrip's failures

\* The RoundTrip of w has fetched from the origin, its Set is about to read the
\* table, and the table holds a row of its key with other headers or another
\* body, stored since the RoundTrip missed.
FindsOtherRow(w) ==
    /\ op[w].kind = "RoundTrip" /\ op[w].transportCalls = 1
    /\ pc[w] = "set_select"
    /\ HasRow(table, op[w].key)
    /\ LET r == RowOf(table, op[w].key)
       IN  \/ r.headers # Val(op[w].row).Headers
           \/ r.body # Val(op[w].row).Body

\* C15: when the Set of a RoundTrip that missed and fetched finds a row of its
\* key with different headers or body, the RoundTrip returns a conflict error
\* and no response, and the table stays as it is.
C15_RoundTripFailClosed ==
    [][\A w \in Workers :
          (FindsOtherRow(w) /\ pc'[w] # pc[w]) =>
              /\ pc'[w] = "done"
              /\ result'[w].err \in ConflictErrors
              /\ result'[w].resp = Nil
              /\ table' = table]_vars

\* Two RoundTrips for one key both fetched; one stored its response and the
\* other returned a conflict error, the row being the one of the first.
C15_Witness ==
    \E v, w \in Workers :
        /\ Done(v, "RoundTrip") /\ Done(w, "RoundTrip") /\ op[v].key = op[w].key
        /\ op[v].transportCalls = 1 /\ op[w].transportCalls = 1
        /\ result[v].err = "" /\ result[w].err \in ConflictErrors
        /\ result[w].resp = Nil
        /\ source[op[v].key] = op[v].resp

\* C16: a RoundTrip that missed and whose transport failed returns the
\* transport's error and no response, has called the transport once and Set
\* never, and leaves the table as it was.
C16_NetworkFailure ==
    \A w \in Workers :
        (Done(w, "RoundTrip") /\ op[w].transportCalls > 0 /\ op[w].resp = Nil) =>
            /\ result[w] = [resp |-> Nil, err |-> NetworkError]
            /\ op[w].transportCalls = 1
            /\ op[w].setCalls = 0
            /\ table = before

\* The transport failed for one key while the other key has a row.
C16_Witness ==
    \E w \in Workers :
        /\ Done(w, "RoundTrip") /\ result[w].err = NetworkError
        /\ table # {}


\* ------------------------------------------------ claims: CertStorage

\* C17: a Fetch that begins after a Fetch for its hostname has returned a
\* certificate returns that certificate and does not call gen.
C17_CertificateReuse ==
    \A f \in Fetchers :
        fetch[f].after # {} =>
            /\ fetch[f].pc = "done"
            /\ fetch[f].genCalls = 0
            /\ fetch[f].result.err = ""
            /\ fetch[f].result.cert # Nil
            /\ fetch[f].after = {Val(fetch[f].result.cert)}

\* A Fetch has returned the certificate an earlier Fetch returned, while the
\* generation function has made more than one certificate.
C17_Witness ==
    \E f \in Fetchers :
        /\ fetch[f].pc = "done" /\ fetch[f].after # {}
        /\ generated > 1

\* C18: of the certificates generated for a hostname the map retains one, and
\* every certificate Fetch has returned for the hostname is the retained one,
\* Fetch calls that ran gen at the same time included.
C18_OneCertificateRetained ==
    \A h \in Hostnames :
        /\ returned[h] \subseteq (IF certs[h] = Nil THEN {} ELSE {Val(certs[h])})
        /\ \A f \in Fetchers :
              (fetch[f].pc = "done" /\ fetch[f].hostname = h
               /\ fetch[f].result.err = "") => fetch[f].result.cert = certs[h]

\* Two Fetch calls for one hostname both generated a certificate, and both
\* returned the same one.
C18_Witness ==
    \E f, g \in Fetchers :
        /\ f # g /\ fetch[f].hostname = fetch[g].hostname
        /\ fetch[f].pc = "done" /\ fetch[g].pc = "done"
        /\ fetch[f].genCalls = 1 /\ fetch[g].genCalls = 1
        /\ fetch[f].cert # Nil /\ fetch[g].cert # Nil /\ fetch[f].cert # fetch[g].cert
        /\ fetch[f].result.cert # Nil
        /\ fetch[f].result = fetch[g].result


\* -------------------------------------------------- claims: RunServer

Triggered == cancelCalls > 0 \/ signals > 0

\* C19: however often and in whatever order the cancel function is called and
\* the signals arrive, server.Shutdown is called once: never twice, and once
\* there has been a trigger.
C19_ShutdownExactlyOnce ==
    /\ [](shutdownCalls <= 1)
    /\ (Triggered ~> shutdownCalls = 1)

\* The cancel function was called twice and two signals arrived, and the one
\* call of server.Shutdown has returned.
C19_Witness ==
    /\ cancelCalls >= 2 /\ signals >= 2
    /\ shutPc = "done" /\ shutdownCalls = 1

\* C20: the grace period is at most ShutdownTimeout, and when server.Shutdown
\* gives up at its end the connections with a request in flight are closed.
C20_GraceThenForceClose ==
    /\ shutPc = "shutdown" => elapsed <= ShutdownTimeout
    /\ (shutPc = "done" /\ shutdownErr = DeadlineExceeded) => conns = 0

\* C21 as stated: once the context is cancelled no connection is accepted, and
\* the goroutine that shuts the server down reaches its end.
C21_BoundedShutdown ==
    /\ [][ctxDone => conns' <= conns]_vars
    /\ (ctxDone ~> shutPc = "done")

\* C21 amended: once server.Shutdown has been called no connection is accepted,
\* and after the context is cancelled the goroutine that shuts the server down
\* reaches its end, whether or not the requests in flight complete.
C21_BoundedShutdownAfterCall ==
    /\ [][inShutdown => conns' <= conns]_vars
    /\ (ctxDone ~> shutPc = "done")

\* The goroutine has ended on the deadline with a request still in flight.
C21_Witness ==
    /\ shutPc = "done" /\ shutdownErr = DeadlineExceeded
    /\ conns > 0

\* C22: the goroutine of the signal logs 'all components shut down
\* successfully' only after server.Shutdown has returned.
C22_ShutdownOrder == sigPc = "done" => shutPc = "done"

\* ------------------------------------------- claims: keys and goroutines

\* No other goroutine has made a call for the key of the call of w.
NoOtherOnKey(w) == \A v \in Workers \ {w} : op[v].key # op[w].key

\* The Set of the ingestion of w is about to read the table, and the table
\* holds a row of its key, stored since the Delete, with other headers or
\* another body.
IngestFindsOtherRow(w) ==
    /\ op[w].kind = "Ingest" /\ pc[w] = "set_select"
    /\ HasRow(table, op[w].key)
    /\ LET r == RowOf(table, op[w].key)
       IN  \/ r.headers # Val(op[w].row).Headers
           \/ r.body # Val(op[w].row).Body

\* C25: an ingestion whose key no other goroutine touches succeeds, and the
\* row of the key then has the injected body; an ingestion whose Set finds a
\* row another writer stored after the Delete returns the conflict error and
\* keeps that row.
C25_ManualInjection ==
    /\ [](\A w \in Workers :
            (Done(w, "Ingest") /\ NoOtherOnKey(w)) =>
                /\ result[w].err = ""
                /\ HasRow(table, op[w].key)
                /\ RowOf(table, op[w].key).body = ReadAll(Val(op[w].resp).Body))
    /\ [][\A w \in Workers :
            (IngestFindsOtherRow(w) /\ pc'[w] # pc[w]) =>
                /\ pc'[w] = "done"
                /\ result'[w].err \in ConflictErrors
                /\ table' = table]_vars

\* C26: a Set of a key that had no row, running while another goroutine's only
\* call is a Set of a different key, returns success, and its commit does not
\* wait for the other.
C26_KeysIndependent ==
    \A w \in Workers :
        (/\ op[w].kind = "Set" /\ op[w].keyAbsent
         /\ \A v \in Workers \ {w} : op[v].kind = "Set" /\ op[v].key # op[w].key) =>
            /\ pc[w] = "done" => result[w].err = ""
            /\ (pc[w] = "set_commit" /\ lock[w] = "reserved") =>
                  CanLock(w, "exclusive")

\* ------------------------------------------- claims: store before return

\* The RoundTrip of w has missed and has not returned.
Missed(w) ==
    /\ op[w].kind = "RoundTrip"
    /\ pc[w] \in {"rt_transport", "set_select", "set_insert", "set_commit"}

\* C29: a RoundTrip that missed has called the transport exactly once when it
\* returns, and when it returns a response, whatever its status code, that is
\* the response of the transport and the row of its key has the headers and
\* the body of that response at the moment of the return.
C29_StoreBeforeReturn ==
    [][\A w \in Workers :
          (Missed(w) /\ pc'[w] = "done") =>
              /\ op'[w].transportCalls = 1
              /\ result'[w].resp # Nil =>
                    /\ result'[w].resp = op'[w].resp
                    /\ HasRow(table', op'[w].key)
                    /\ LET r == RowOf(table', op'[w].key)
                           resp == Val(result'[w].resp)
                       IN  /\ r.headers = HeadersToJSON(resp.Header)
                           /\ r.body = ReadAll(resp.Body)]_vars

\* A RoundTrip that missed has returned a 404 response, which is the row of
\* its key.
C29_Witness ==
    \E w \in Workers :
        /\ Done(w, "RoundTrip") /\ op[w].transportCalls = 1
        /\ result[w].resp # Nil /\ Val(result[w].resp).StatusCode = 404
        /\ HasRow(table, op[w].key)
        /\ RowOf(table, op[w].key).status_code = 404

\* ------------------------------------------------- claims: the facade

\* C28: a Get returns a response of the row of its key with its whole body to
\* read, or nothing when the key has no row, or an error and no response; a
\* Set returns its response with the whole stored body to read, or an error
\* and no response.
C28_FacadeTrichotomy ==
    \A w \in Workers :
        /\ Done(w, "Get") =>
              \/ /\ result[w].resp # Nil /\ result[w].err = ""
                 /\ HasRow(table, op[w].key)
                 /\ LET r == RowOf(table, op[w].key)
                        resp == Val(result[w].resp)
                    IN  /\ resp.StatusCode = r.status_code
                        /\ resp.Status = r.status
                        /\ resp.Body.pos = 0
                        /\ ReadAll(resp.Body) = r.body
              \/ /\ result[w] = [resp |-> Nil, err |-> ""]
                 /\ ~HasRow(table, op[w].key)
              \/ result[w].resp = Nil /\ result[w].err # ""
        /\ Done(w, "Set") =>
              \/ /\ result[w].resp # Nil /\ result[w].err = ""
                 /\ HasRow(table, op[w].key)
                 /\ LET resp == Val(result[w].resp)
                    IN  /\ resp.Body.pos = 0
                        /\ ReadAll(resp.Body) = RowOf(table, op[w].key).body
              \/ result[w].resp = Nil /\ result[w].err # ""

\* A Set of a response whose body was read in part has stored and returned
\* the rest of the body.
C28_Witness ==
    \E w \in Workers :
        /\ Done(w, "Set") /\ result[w].resp # Nil
        /\ ReadAll(Val(result[w].resp).Body) = <<68>>
        /\ RowOf(table, op[w].key).body = <<68>>

\* ------------------------------------------- claims: the proxy on a miss

\* C30: a request the proxy receives for a key without a row carries that key
\* (method and url) in its context and goes to the origin; the row the
\* response hook writes has exactly that key; and the response the hook
\* returns has its whole body to read, which is the body of the row once the
\* write has succeeded.
C30_ProxyMiss ==
    \A w \in Workers :
        (op[w].kind = "Proxy" /\ op[w].keyAbsent /\ pc[w] # "exit") =>
            /\ op[w].userData =
                  Some([Method |-> op[w].key.Method, URL |-> op[w].key.URL])
            /\ pc[w] = "px_origin" \/ op[w].transportCalls = 1
            /\ op[w].row # Nil =>
                  /\ Val(op[w].row).Method = op[w].key.Method
                  /\ Val(op[w].row).Url = op[w].key.URL
            /\ (pc[w] = "done" /\ result[w].resp # Nil) =>
                  LET resp == Val(result[w].resp)
                  IN  /\ resp.Body.pos = 0
                      /\ (op[w].setCalls = 1 /\ op[w].setErr = "") =>
                            /\ HasRow(table, op[w].key)
                            /\ RowOf(table, op[w].key).body = ReadAll(resp.Body)

\* The proxy has fetched a response of status 200 on a miss, stored it, and
\* returned it with the stored body.
C30_Witness ==
    \E w \in Workers :
        /\ Done(w, "Proxy") /\ op[w].keyAbsent /\ op[w].transportCalls = 1
        /\ op[w].setCalls = 1 /\ op[w].setErr = ""
        /\ result[w].resp # Nil
        /\ ReadAll(Val(result[w].resp).Body) = <<66>>
        /\ RowOf(table, op[w].key).body = <<66>>

\* ----------------------------------------------- claims: the proxy exits

\* The process has ended.
Exited == \A w \in Workers : pc[w] = "exit"

\* C24: when cache.Get returns an error to the request hook, the process
\* ends: the request was not sent to the origin and got no answer, and from
\* then on no request is received, sent to the origin or answered.
C24_ProxyFailFast ==
    /\ [](\A w \in Workers :
            (op[w].kind = "Proxy" /\ op[w].getErr # "") =>
                /\ Exited
                /\ op[w].transportCalls = 0 /\ op[w].userData = Nil
                /\ result[w] = NoResult)
    /\ [][Exited => UNCHANGED cacheVars]_vars

\* The process has ended on a failed lookup while another request was at the
\* origin.
C24_Witness ==
    \E v, w \in Workers :
        /\ op[w].kind = "Proxy" /\ op[w].getErr = QueryError
        /\ Exited
        /\ op[v].kind = "Proxy" /\ op[v].userData # Nil /\ op[v].resp = Nil

\* ------------------------------------------------- claims: rows of a key

\* A SQLiteCache.Set for the key commits its INSERT in this step.
SetCommits(key) ==
    \E w \in Workers :
        /\ pc[w] = "set_commit" /\ pc'[w] = "done"
        /\ lock[w] = "reserved"
        /\ Val(op[w].row).Method = key.Method /\ Val(op[w].row).Url = key.URL

\* A Delete of the key runs in this step (Cache.Delete, or the Delete that
\* ingestion starts with).
DeleteRuns(key) ==
    \E w \in Workers :
        /\ started' = started + 1
        /\ op'[w].kind \in {"Delete", "Ingest"} /\ op'[w].key = key
        /\ pc'[w] # pc[w] \/ op'[w] # op[w]

\* C23: the rows of a key change only when a Set for the key, which had no
\* row, commits its one row, or when a Delete of the key removes its row; no
\* step changes a row that stays, and no step changes the rows of a key other
\* than the key of the operation that takes it.
C23_EntryLifecycle ==
    [][\A key \in Keys :
          LET old == RowsWhere(table, key.Method, key.URL)
              new == RowsWhere(table', key.Method, key.URL)
          IN  old # new =>
                \/ old = {} /\ Cardinality(new) = 1 /\ SetCommits(key)
                \/ old # {} /\ new = {} /\ DeleteRuns(key)]_vars

\* A Delete has removed the row of its key and left the row of the other key.
C23_Witness ==
    \E w \in Workers :
        /\ Done(w, "Delete")
        /\ Cardinality(before) = 2 /\ Cardinality(table) = 1
        /\ ~HasRow(table, op[w].key)
        /\ table \subseteq before

\* ------------------------------------------------ claims: NewHTTPClient

\* The cache has been neither read nor written: the table is empty and no
\* call has gone through Cache.RoundTrip.
CacheUntouched ==
    /\ table = {}
    /\ \A w \in Workers : op[w].kind # "RoundTrip"

\* C27: NewHTTPClient(nil) returns a client that never reads or writes a
\* cache; a path that does not begin with a slash returns an error and opens
\* no store; a path that begins with a slash returns a client whose Transport
\* is the Cache on the store opened at that path (and, when the store cannot
\* be opened, no client and the error).
C27_TransportSelection ==
    client.made =>
        LET absolute == /\ client.dbFile # Nil
                        /\ Val(client.dbFile) # <<>>
                        /\ Head(Val(client.dbFile)) = "/"
        IN  /\ client.dbFile = Nil =>
                  /\ client.err = "" /\ client.client # Nil
                  /\ Val(client.client).Transport = Nil
                  /\ opened = {} /\ CacheUntouched
            /\ (client.dbFile # Nil /\ ~absolute) =>
                  /\ client.err # ""
                  /\ opened = {} /\ CacheUntouched
            /\ (absolute /\ client.canOpen) =>
                  /\ client.err = "" /\ client.client # Nil
                  /\ Val(client.client).Transport =
                        Some([SqliteCache |-> Val(client.dbFile), Transport |-> Nil])
                  /\ opened = {Val(client.dbFile)}
            /\ (absolute /\ ~client.canOpen) =>
                  /\ client.err # "" /\ client.client = Nil
                  /\ opened = {}

\* A client made for an absolute path has fetched a response, which is now a
\* row.
C27_Witness ==
    /\ client.made /\ client.dbFile = Some(<<"/", "a">>)
    /\ Done(Caller, "RoundTrip") /\ table # {}

\* ------------------------------------- claims: certificate generation fails

\* C35: a Fetch whose gen fails returns the error of gen and no certificate
\* and leaves the map as it is, for its hostname and for every other; and a
\* Fetch that begins after such a failure, the map having received no
\* certificate for the hostname since, calls gen again.
C35_GenerationFailure ==
    /\ [][\A f \in Fetchers :
            (fetch[f].pc = "gen" /\ fetch'[f].pc # "gen"
             /\ generated' = generated) =>
                /\ fetch'[f].pc = "done"
                /\ fetch'[f].result = [cert |-> Nil, err |-> GenError]
                /\ certs' = certs]_vars
    /\ [](\A f \in Fetchers :
            fetch[f].afterFailed =>
                \/ fetch[f].pc = "gen"
                \/ fetch[f].genCalls = 1)

\* After a failed Fetch for a hostname a later Fetch for it has generated and
\* stored a certificate, while the other hostname has kept its own.
C35_Witness ==
    \E f \in Fetchers, h \in Hostnames :
        /\ fetch[f].afterFailed /\ fetch[f].pc = "done"
        /\ fetch[f].result.err = "" /\ fetch[f].result.cert = certs[fetch[f].hostname]
        /\ h # fetch[f].hostname /\ certs[h] # Nil

\* ------------------------------------------- claims: what Set compares

\* The response of the Set of w has the headers and the body of the row its
\* key had when the call began, and another status code or status text.
SameButStatus(w) ==
    /\ HasRow(before, op[w].key)
    /\ LET r == RowOf(before, op[w].key)
           resp == Val(op[w].resp)
       IN  /\ r.headers = HeadersToJSON(resp.Header)
           /\ r.body = ReadAll(resp.Body)
           /\ r.status_code # resp.StatusCode \/ r.status # resp.Status

\* C31: a Set for a key whose row has the headers and the body of the response
\* and another status returns the response and no error and writes nothing:
\* the row of the key keeps its status code, its status text and its
\* timestamp, so the row stored after a successful Set is not the row passed.
C31_SetIgnoresStatus ==
    \A w \in Workers :
        (Done(w, "Set") /\ SameButStatus(w)) =>
            /\ result[w] = [resp |-> op[w].resp, err |-> ""]
            /\ table = before
            /\ LET r == RowOf(before, op[w].key)
                   kept == RowOf(table, op[w].key)
               IN  /\ kept.status_code = r.status_code
                   /\ kept.status = r.status
                   /\ kept.timestamp = r.timestamp
                   /\ kept.status_code # Val(op[w].resp).StatusCode

\* A Set of a 404 response succeeded on a key stored as 200 at an earlier
\* reading of the clock.
C31_Witness ==
    \E w \in Workers :
        /\ Done(w, "Set") /\ SameButStatus(w)
        /\ result[w].err = ""
        /\ RowOf(table, op[w].key).status_code = 200
        /\ Val(op[w].resp).StatusCode = 404
        /\ RowOf(table, op[w].key).timestamp # FormatRFC3339(now)

\* --------------------------------------------------- claims: Get, then Set

\* The headers of the row r hold one X-Cache-Timestamp value, the timestamp of
\* the row as Get formats it.
Stamped(r) ==
    LET h == HeadersFromJSON(r.headers)
    IN  /\ XCacheTimestamp \in DOMAIN h
        /\ h[XCacheTimestamp] = <<FormatRFC3339(Val(ParseRFC3339(r.timestamp)))>>

\* C32: a Set of the response Get has just returned for the key leaves the
\* table as it was, and returns the "different headers" conflict and no
\* response unless the headers of the key's row already held the
\* X-Cache-Timestamp that Get adds.
C32_GetThenSetConflicts ==
    \A w \in Workers :
        (Done(w, "Set") /\ op[w].got) =>
            /\ HasRow(before, op[w].key)
            /\ table = before
            /\ ~Stamped(RowOf(before, op[w].key)) =>
                   result[w] = [resp |-> Nil,
                                err |-> "cache entry exists with different headers"]

\* A Set of what Get returned has met the conflict on a row stored by a Set,
\* whose headers carry no X-Cache-Timestamp.
C32_Witness ==
    \E w \in Workers :
        /\ Done(w, "Set") /\ op[w].got
        /\ XCacheTimestamp \notin DOMAIN HeadersFromJSON(RowOf(before, op[w].key).headers)
        /\ XCacheTimestamp \in DOMAIN Val(op[w].resp).Header
        /\ result[w].err = "cache entry exists with different headers"

\* ------------------------------------------- claims: DownloadWithRetry

\* baseDelay, 2 * baseDelay, 4 * baseDelay, ...: n delays.
RECURSIVE Doubling(_, _)
Doubling(d, n) == IF n = 0 THEN <<>> ELSE <<d>> \o Doubling(2 * d, n - 1)

\* C33: DownloadWithRetry with maxRetries >= 1 calls Download at most
\* maxRetries times, and never after a call that succeeded; it has slept once
\* after each failed call but the last of maxRetries, for baseDelay doubled
\* each time; and once it has returned, it has returned an error exactly when
\* it made maxRetries calls and all failed, and the values of the successful
\* call otherwise.
C33_RetryLoop ==
    LET n == Len(retry.attempts) IN
    retry.maxRetries >= 1 =>
        /\ n <= retry.maxRetries
        /\ \A i \in 1..(n - 1) : retry.attempts[i].err # ""
        /\ retry.slept = Doubling(retry.baseDelay, Len(retry.slept))
        /\ retry.pc = "do" => Len(retry.slept) = n
        /\ retry.pc \in {"sleep", "done"} => Len(retry.slept) = n - 1
        /\ retry.pc = "sleep" => n < retry.maxRetries
        /\ retry.pc = "done" =>
              /\ retry.result.err # Nil <=>
                    (n = retry.maxRetries /\ \A i \in 1..n : retry.attempts[i].err # "")
              /\ retry.result.err # Nil =>
                    retry.result.err =
                        FailedAfter(retry.maxRetries, retry.attempts[n].err)
              /\ retry.result.err = Nil =>
                    /\ retry.attempts[n].err = ""
                    /\ retry.result.code = 200

\* DownloadWithRetry has returned the body of its third attempt, after two
\* failures and sleeps of baseDelay and twice baseDelay.
C33_Witness ==
    /\ retry.pc = "done" /\ retry.maxRetries = 3 /\ retry.baseDelay = 2
    /\ Len(retry.attempts) = 3
    /\ retry.result.err = Nil /\ retry.result.body # <<>>
    /\ retry.slept = <<2, 4>>

\* ---------------------------------------- claims: retry over a cached failure

\* The first attempt of DownloadWithRetry was answered by the origin with a
\* status other than 200.
FirstRefused ==
    /\ Len(retry.attempts) >= 1
    /\ retry.attempts[1].transportCalls = 1
    /\ retry.attempts[1].code \notin {0, 200}

\* Another goroutine has deleted the key of DownloadWithRetry since the call
\* began.
KeyDeleted == op["w2"].kind = "Delete" /\ op["w2"].key = retry.key

\* C34: once the origin has answered the first attempt with a status other
\* than 200, and as long as no one deletes the key, the table holds the
\* response under the key, every later attempt is answered by the cache with
\* that status and makes no call of the transport, and DownloadWithRetry
\* returns only after maxRetries attempts, with an error; so a call that
\* returns without error after such a first attempt follows a Delete of the
\* key.
C34_RetryOverCachedFailure ==
    (FirstRefused /\ ~KeyDeleted) =>
        /\ HasRow(table, retry.key)
        /\ RowOf(table, retry.key).status_code = retry.attempts[1].code
        /\ \A i \in 2..Len(retry.attempts) :
              /\ retry.attempts[i].transportCalls = 0
              /\ retry.attempts[i].code = retry.attempts[1].code
              /\ retry.attempts[i].err = UnexpectedStatusError
        /\ retry.pc = "done" =>
              /\ Len(retry.attempts) = retry.maxRetries
              /\ retry.result.err =
                    FailedAfter(retry.maxRetries, UnexpectedStatusError)

\* DownloadWithRetry has returned its error after three attempts, the first
\* answered 404 by the origin, the key never deleted.
C34_Witness ==
    /\ FirstRefused /\ ~KeyDeleted
    /\ retry.pc = "done" /\ retry.maxRetries = 3
    /\ Len(retry.attempts) = 3
    /\ retry.attempts[3].transportCalls = 0
    /\ retry.result.err # Nil


====
